---- MODULE Spec2Model ----
(***************************************************************************)
(* HistoryHydratingAgentRunner: history hydration (connect), the stream    *)
(* normalizer (processStreamChunk / handleCustomEvent) and the message     *)
(* projector (transformMessages), modelled as one state machine per        *)
(* connection.  Each action is the code that runs between two awaits.      *)
(*                                                                         *)
(* Conventions.  An optional value is a sequence of length 0 or 1          *)
(* (None / Some(x)).  An optional identifier that the code tests with      *)
(* `x || fallback` or `if (x)` is a string, "" when it is absent (both are *)
(* falsy in the code).  A text is a sequence of one-character strings, so  *)
(* that joining texts is sequence concatenation.                           *)
(***************************************************************************)
EXTENDS Integers, Sequences, FiniteSets, TLC

\* ---------------------------------------------------------------- bounds
\* Number of distinct message ids that occur in the fetched checkpoints.
NumIds == 3
\* Longest checkpoint list getHistory returns.
MaxCkpts == 2
\* Longest joined stream (number of chunks delivered before it ends or fails).
MaxChunks == 2
\* Blocks in the content array of a message.
MaxBlocks == 3
\* Executions started through run().
MaxRuns == 2

\* ------------------------------------------------------ program constants
DEFAULT_HISTORY_LIMIT == 100
MAX_HISTORY_LIMIT == 1000

None == <<>>
Some(x) == <<x>>

Min(a, b) == IF a <= b THEN a ELSE b

\* ------------------------------------------------------------- UI events
\* One record shape for every event handed to subscriber.next; the fields an
\* event type does not carry hold "" / <<>>.  raw abstracts rawEvent: the
\* nested event name of an `events` chunk, the outer category otherwise.
Ev(type, runId, id, name, value, messages, snapshot, raw) ==
    [type |-> type, runId |-> runId, id |-> id, name |-> name, value |-> value,
     messages |-> messages, snapshot |-> snapshot, raw |-> raw]

RunStarted(runId) == Ev("RUN_STARTED", runId, "", "", "", <<>>, None, "")
RunFinished(runId) == Ev("RUN_FINISHED", runId, "", "", "", <<>>, None, "")
MessagesSnapshot(runId, messages) ==
    Ev("MESSAGES_SNAPSHOT", runId, "", "", "", messages, None, "")
StateSnapshot(runId, snapshot, raw) ==
    Ev("STATE_SNAPSHOT", runId, "", "", "", <<>>, snapshot, raw)
Custom(runId, name, value, raw) ==
    Ev("CUSTOM", runId, "", name, value, <<>>, None, raw)
TextMessageStart(runId, messageId, raw) ==
    Ev("TEXT_MESSAGE_START", runId, messageId, "", "", <<>>, None, raw)
TextMessageContent(runId, messageId, delta, raw) ==
    Ev("TEXT_MESSAGE_CONTENT", runId, messageId, "", delta, <<>>, None, raw)
TextMessageEnd(runId, messageId, raw) ==
    Ev("TEXT_MESSAGE_END", runId, messageId, "", "", <<>>, None, raw)
ToolCallStart(runId, toolCallId, toolCallName, raw) ==
    Ev("TOOL_CALL_START", runId, toolCallId, toolCallName, "", <<>>, None, raw)
ToolCallArgs(runId, toolCallId, delta, raw) ==
    Ev("TOOL_CALL_ARGS", runId, toolCallId, "", delta, <<>>, None, raw)
ToolCallEnd(runId, toolCallId, raw) ==
    Ev("TOOL_CALL_END", runId, toolCallId, "", "", <<>>, None, raw)

\* ------------------------------------------------------ message projector
\* extractContent: a string is returned as it is; a list of blocks gives the
\* non-empty texts of its "text" blocks joined by a newline; else "".
RECURSIVE BlockTexts(_)
BlockTexts(blocks) ==
    IF blocks = <<>> THEN <<>>
    ELSE LET block == Head(blocks)
             text == IF block.type = "text" /\ block.text # <<>>
                     THEN block.text ELSE <<>>
         IN (IF Len(text) > 0 THEN <<text>> ELSE <<>>) \o BlockTexts(Tail(blocks))

\* A join without the separator.
RECURSIVE JoinLines_Concat(_)
JoinLines_Concat(texts) ==
    IF texts = <<>> THEN <<>>
    ELSE texts[1] \o JoinLines_Concat(Tail(texts))

RECURSIVE JoinLines(_)
JoinLines(texts) ==
    IF texts = <<>> THEN <<>>
    ELSE IF Len(texts) = 1 THEN texts[1]
    ELSE texts[1] \o <<"\n">> \o JoinLines(Tail(texts))

extractContent(content) ==
    CASE content.kind = "string" -> content.text
      [] content.kind = "array" -> JoinLines(BlockTexts(content.blocks))
      [] OTHER -> <<>>

RoleOf(type) ==
    CASE type = "human" -> "user"
      [] type = "ai" -> "assistant"
      [] type = "system" -> "system"
      [] type = "tool" -> "tool"
      [] OTHER -> ""

\* What makes the body of the loop throw into its catch: a null record
\* (msg.type), or a content array holding a null block (block.type in
\* extractContent, reached for the four known types only).
ProjectionThrows(msg) ==
    \/ msg.isNull
    \/ /\ RoleOf(msg.type) # ""
       /\ msg.content.kind = "array"
       /\ \E k \in 1..Len(msg.content.blocks) : msg.content.blocks[k].isNull

\* One iteration of the loop of transformMessages: the projection of msg, or
\* nothing for a type outside the four known ones and for a record whose
\* projection throws (caught per message).
TransformOne(msg) ==
    IF ProjectionThrows(msg) THEN <<>>
    ELSE IF RoleOf(msg.type) = "" THEN <<>>
    ELSE << [id |-> msg.id, role |-> RoleOf(msg.type),
             content |-> extractContent(msg.content)] >>

RECURSIVE transformMessages(_)
transformMessages(messages) ==
    IF messages = <<>> THEN <<>>
    ELSE TransformOne(Head(messages)) \o transformMessages(Tail(messages))

\* ---------------------------------------------------- history reconstructor
RECURSIVE Reverse(_)
Reverse(s) == IF s = <<>> THEN <<>> ELSE Append(Reverse(Tail(s)), Head(s))

\* state.values?.messages, [] when values or messages is absent.
CheckpointMessages(state) ==
    IF state.values # None /\ state.values[1].messages # None
    THEN state.values[1].messages[1]
    ELSE <<>>

\* AddUnseen without the seenMessageIds test.
RECURSIVE AddUnseen_NoSeenTest(_, _)
AddUnseen_NoSeenTest(acc, messages) ==
    IF messages = <<>> \/ acc.threw THEN acc
    ELSE IF Head(messages).isNull THEN [acc EXCEPT !.threw = TRUE]
    ELSE AddUnseen_NoSeenTest(
             [allMessages |-> Append(acc.allMessages, Head(messages)),
              seenMessageIds |-> acc.seenMessageIds \cup {Head(messages).id},
              threw |-> FALSE],
             Tail(messages))

\* The inner loop: append the messages whose id has not been seen.  A null
\* record makes msg.id throw, out of both loops.
\* AddUnseen where a message seen before takes the place of the one kept.
RECURSIVE AddUnseen_LastWins(_, _)
AddUnseen_LastWins(acc, messages) ==
    IF messages = <<>> \/ acc.threw THEN acc
    ELSE LET msg == Head(messages)
         IN IF msg.isNull THEN [acc EXCEPT !.threw = TRUE]
            ELSE AddUnseen_LastWins(
                    IF msg.id \in acc.seenMessageIds
                    THEN [acc EXCEPT !.allMessages =
                            [k \in 1..Len(acc.allMessages) |->
                                IF acc.allMessages[k].id = msg.id THEN msg
                                ELSE acc.allMessages[k]]]
                    ELSE [allMessages |-> Append(acc.allMessages, msg),
                          seenMessageIds |-> acc.seenMessageIds \cup {msg.id},
                          threw |-> FALSE],
                    Tail(messages))

RECURSIVE AddUnseen(_, _)
AddUnseen(acc, messages) ==
    IF messages = <<>> \/ acc.threw THEN acc
    ELSE LET msg == Head(messages)
         IN IF msg.isNull THEN [acc EXCEPT !.threw = TRUE]
            ELSE AddUnseen(IF msg.id \in acc.seenMessageIds THEN acc
                           ELSE [allMessages |-> Append(acc.allMessages, msg),
                                 seenMessageIds |-> acc.seenMessageIds \cup {msg.id},
                                 threw |-> FALSE],
                           Tail(messages))

\* A reconstruction that reads the newest checkpoint only.
CollectMessages_NewestOnly(acc, checkpoints) ==
    IF checkpoints = <<>> THEN acc
    ELSE AddUnseen(acc, CheckpointMessages(checkpoints[Len(checkpoints)]))

\* The outer loop over the checkpoints in the order given.
RECURSIVE CollectMessages(_, _)
CollectMessages(acc, checkpoints) ==
    IF checkpoints = <<>> \/ acc.threw THEN acc
    ELSE CollectMessages(AddUnseen(acc, CheckpointMessages(Head(checkpoints))),
                         Tail(checkpoints))

\* The walk without history.reverse().
WalkOrder_NotReversed(fetchedList) == fetchedList

\* history.reverse(): the order in which connect walks the fetched list.
WalkOrder(fetchedList) == Reverse(fetchedList)

\* allMessages after both loops, for the list as getHistory returned it.
Collected(fetchedList) ==
    CollectMessages([allMessages |-> <<>>, seenMessageIds |-> {}, threw |-> FALSE],
                    WalkOrder(fetchedList))
AllMessages(fetchedList) == Collected(fetchedList).allMessages

\* The loops threw (a null message record): the catch of connect takes over.
ReconstructionThrows(fetchedList) == Collected(fetchedList).threw

\* Array.prototype.slice(-n) for n > 0.
SliceLast(s, n) == IF Len(s) <= n THEN s ELSE SubSeq(s, Len(s) - n + 1, Len(s))

\* The trim as slice(0, limit): the newest entries dropped.
LimitedMessages_KeepFirst(all, limit) ==
    IF limit > 0 /\ Len(all) > limit THEN SubSeq(all, 1, limit) ELSE all

LimitedMessages(all, limit) == IF limit > 0 THEN SliceLast(all, limit) ELSE all

\* transformedMessages of connect: deduplicate, trim, project.
Reconstruct(fetchedList, limit) ==
    transformMessages(LimitedMessages(AllMessages(fetchedList), limit))

\* The newest checkpoint: history[history.length - 1] after the reversal.
LatestState(fetchedList) == WalkOrder(fetchedList)[Len(fetchedList)]

\* ------------------------------------------------------- interrupt detection
\* tasks?.find(task => task.interrupts && task.interrupts.length > 0), then
\* interrupts[0]?.value.  A task entry that is null (ok = FALSE) makes the
\* callback throw when find reaches it.  Result: threw, or the value found.
\* A search that takes the last interrupt of the task it finds.
RECURSIVE FindInterrupt_LastOfTask(_)
FindInterrupt_LastOfTask(tasks) ==
    IF tasks = <<>> THEN [threw |-> FALSE, found |-> FALSE, value |-> ""]
    ELSE LET task == Head(tasks)
         IN IF ~task.ok THEN [threw |-> TRUE, found |-> FALSE, value |-> ""]
            ELSE IF Len(task.interrupts) > 0
                 THEN [threw |-> FALSE, found |-> TRUE,
                       value |-> task.interrupts[Len(task.interrupts)]]
                 ELSE FindInterrupt_LastOfTask(Tail(tasks))

RECURSIVE FindInterrupt(_)
FindInterrupt(tasks) ==
    IF tasks = <<>> THEN [threw |-> FALSE, found |-> FALSE, value |-> ""]
    ELSE LET task == Head(tasks)
         IN IF ~task.ok THEN [threw |-> TRUE, found |-> FALSE, value |-> ""]
            ELSE IF Len(task.interrupts) > 0
                 THEN [threw |-> FALSE, found |-> TRUE, value |-> task.interrupts[1]]
                 ELSE FindInterrupt(Tail(tasks))

OnInterrupt(runId, value) == Custom(runId, "on_interrupt", value, "interrupt")

\* ---------------------------------------------------------- stream normalizer
CopilotKitManuallyEmitMessage == "copilotkit_manually_emit_message"
CopilotKitManuallyEmitToolCall == "copilotkit_manually_emit_tool_call"
CopilotKitManuallyEmitIntermediateState == "copilotkit_manually_emit_intermediate_state"
CopilotKitExit == "copilotkit_exit"

\* What one handler of the `events` case does: the events it emits, the started
\* sets after it, and whether it left the switch with `break` (which skips the
\* generic CUSTOM event at the end of the case).
Handled(events, startedMessages, startedToolCalls, brk) ==
    [events |-> events, startedMessages |-> startedMessages,
     startedToolCalls |-> startedToolCalls, brk |-> brk]

\* An identity that is always the session's run id.
UnitId_AmbientOnly(chunk, ctx) == ctx.runId

\* eventsData.run_id || runId
UnitId(chunk, ctx) == IF chunk.run_id # "" THEN chunk.run_id ELSE ctx.runId

\* A normalizer that never reads the emit-messages flag.
MessagesOff_Never(chunk) == FALSE
MessagesOff(chunk) == chunk.emitMessages = "false"
ToolCallsOff(chunk) == chunk.emitToolCalls = "false"

\* OnChatModelStream: the predict-state branch, then the text branch.
OnChatModelStream(chunk, ctx) ==
    LET messageId == UnitId(chunk, ctx)
        delta == IF chunk.content = "ARRAY" THEN "" ELSE chunk.content
        isNew == messageId \notin ctx.startedMessages
    IN IF chunk.predict
       THEN Handled(<<Custom(ctx.runId, "PredictState", "predict", chunk.ev)>>,
                    ctx.startedMessages, ctx.startedToolCalls, TRUE)
       ELSE IF chunk.content = ""
       THEN Handled(<<>>, ctx.startedMessages, ctx.startedToolCalls, FALSE)
       ELSE IF MessagesOff(chunk)
       THEN Handled(<<>>, ctx.startedMessages, ctx.startedToolCalls, TRUE)
       ELSE Handled((IF isNew THEN <<TextMessageStart(ctx.runId, messageId, chunk.ev)>>
                     ELSE <<>>)
                    \o <<TextMessageContent(ctx.runId, messageId, delta, chunk.ev)>>,
                    ctx.startedMessages \cup {messageId}, ctx.startedToolCalls, FALSE)

\* An OnChatModelStart handler that does not consult startedMessages.
OnChatModelStart_AlwaysStarts(chunk, ctx) ==
    LET messageId == UnitId(chunk, ctx)
    IN IF MessagesOff(chunk)
       THEN Handled(<<>>, ctx.startedMessages, ctx.startedToolCalls, TRUE)
       ELSE Handled(<<TextMessageStart(ctx.runId, messageId, chunk.ev)>>,
                    ctx.startedMessages \cup {messageId}, ctx.startedToolCalls, FALSE)

OnChatModelStart(chunk, ctx) ==
    LET messageId == UnitId(chunk, ctx)
    IN IF MessagesOff(chunk)
       THEN Handled(<<>>, ctx.startedMessages, ctx.startedToolCalls, TRUE)
       ELSE IF messageId \notin ctx.startedMessages
       THEN Handled(<<TextMessageStart(ctx.runId, messageId, chunk.ev)>>,
                    ctx.startedMessages \cup {messageId}, ctx.startedToolCalls, FALSE)
       ELSE Handled(<<>>, ctx.startedMessages, ctx.startedToolCalls, FALSE)

\* An OnChatModelEnd handler that emits the END alone.
OnChatModelEnd_EndOnly(chunk, ctx) ==
    LET messageId == UnitId(chunk, ctx)
    IN IF MessagesOff(chunk)
       THEN Handled(<<>>, ctx.startedMessages, ctx.startedToolCalls, TRUE)
       ELSE Handled(<<TextMessageEnd(ctx.runId, messageId, chunk.ev)>>,
                    ctx.startedMessages \cup {messageId}, ctx.startedToolCalls, FALSE)

OnChatModelEnd(chunk, ctx) ==
    LET messageId == UnitId(chunk, ctx)
        isNew == messageId \notin ctx.startedMessages
    IN IF MessagesOff(chunk)
       THEN Handled(<<>>, ctx.startedMessages, ctx.startedToolCalls, TRUE)
       ELSE Handled((IF isNew THEN <<TextMessageStart(ctx.runId, messageId, chunk.ev)>>
                     ELSE <<>>)
                    \o <<TextMessageEnd(ctx.runId, messageId, chunk.ev)>>,
                    ctx.startedMessages \cup {messageId}, ctx.startedToolCalls, FALSE)

\* if (toolData): data.input is there and is not a falsy value ("", 0, null).
HasToolData(chunk) == chunk.input = "value"

\* An OnToolStart handler that does not consult startedToolCalls.
OnToolStart_AlwaysStarts(chunk, ctx) ==
    LET toolCallId == UnitId(chunk, ctx)
    IN IF ToolCallsOff(chunk)
       THEN Handled(<<>>, ctx.startedMessages, ctx.startedToolCalls, TRUE)
       ELSE Handled(<<ToolCallStart(ctx.runId, toolCallId, chunk.name, chunk.ev)>>
                    \o (IF HasToolData(chunk)
                        THEN <<ToolCallArgs(ctx.runId, toolCallId, "input", chunk.ev)>>
                        ELSE <<>>),
                    ctx.startedMessages, ctx.startedToolCalls \cup {toolCallId}, FALSE)

OnToolStart(chunk, ctx) ==
    LET toolCallId == UnitId(chunk, ctx)
        isNew == toolCallId \notin ctx.startedToolCalls
    IN IF ToolCallsOff(chunk)
       THEN Handled(<<>>, ctx.startedMessages, ctx.startedToolCalls, TRUE)
       ELSE Handled((IF isNew
                     THEN <<ToolCallStart(ctx.runId, toolCallId, chunk.name, chunk.ev)>>
                     ELSE <<>>)
                    \o (IF HasToolData(chunk)
                        THEN <<ToolCallArgs(ctx.runId, toolCallId, "input", chunk.ev)>>
                        ELSE <<>>),
                    ctx.startedMessages, ctx.startedToolCalls \cup {toolCallId}, FALSE)

\* An OnToolEnd handler without the mid-stream START.
OnToolEnd_EndOnly(chunk, ctx) ==
    IF ToolCallsOff(chunk)
    THEN Handled(<<>>, ctx.startedMessages, ctx.startedToolCalls, TRUE)
    ELSE Handled(<<ToolCallEnd(ctx.runId, UnitId(chunk, ctx), chunk.ev)>>,
                 ctx.startedMessages, ctx.startedToolCalls, FALSE)

OnToolEnd(chunk, ctx) ==
    LET toolCallId == UnitId(chunk, ctx)
        isNew == toolCallId \notin ctx.startedToolCalls
    IN IF ToolCallsOff(chunk)
       THEN Handled(<<>>, ctx.startedMessages, ctx.startedToolCalls, TRUE)
       ELSE Handled((IF isNew
                     THEN <<ToolCallStart(ctx.runId, toolCallId, chunk.name, chunk.ev)>>
                     ELSE <<>>)
                    \o <<ToolCallEnd(ctx.runId, toolCallId, chunk.ev)>>,
                    ctx.startedMessages, ctx.startedToolCalls \cup {toolCallId}, FALSE)

\* The specialised handling of the `events` case, by nested event name.
EventsHandler(chunk, ctx) ==
    CASE chunk.ev = "on_chat_model_stream" -> OnChatModelStream(chunk, ctx)
      [] chunk.ev = "on_chat_model_start" -> OnChatModelStart(chunk, ctx)
      [] chunk.ev = "on_chat_model_end" -> OnChatModelEnd(chunk, ctx)
      [] chunk.ev = "on_tool_start" -> OnToolStart(chunk, ctx)
      [] chunk.ev = "on_tool_end" -> OnToolEnd(chunk, ctx)
      [] OTHER -> Handled(<<>>, ctx.startedMessages, ctx.startedToolCalls, FALSE)

\* The generic CUSTOM event that ends the `events` case.
GenericEvent(chunk, ctx) == Custom(ctx.runId, chunk.ev, "data", chunk.ev)

\* What processStreamChunk returns and does: the events handed to the
\* subscriber, the returned runId and manuallyEmittedState, the started sets
\* (mutated in place), and whether it threw.
Processed(events, runId, startedMessages, startedToolCalls, manuallyEmittedState, threw) ==
    [events |-> events, runId |-> runId, startedMessages |-> startedMessages,
     startedToolCalls |-> startedToolCalls,
     manuallyEmittedState |-> manuallyEmittedState, threw |-> threw]

Unchanged(ctx, events) ==
    Processed(events, ctx.runId, ctx.startedMessages, ctx.startedToolCalls,
              ctx.manuallyEmittedState, FALSE)

Threw(ctx) ==
    Processed(<<>>, ctx.runId, ctx.startedMessages, ctx.startedToolCalls,
              ctx.manuallyEmittedState, TRUE)

EventsCase(chunk, ctx) ==
    LET h == EventsHandler(chunk, ctx)
    IN Processed(h.events \o (IF h.brk THEN <<>> ELSE <<GenericEvent(chunk, ctx)>>),
                 ctx.runId, h.startedMessages, h.startedToolCalls,
                 ctx.manuallyEmittedState, FALSE)

\* handleCustomEvent: eventName is the chunk's name; the id is value.message_id
\* (value.id for a tool call) || runId.
ManuallyEmitMessage(chunk, ctx) ==
    LET messageId == IF chunk.value_id # "" THEN chunk.value_id ELSE ctx.runId
    IN << TextMessageStart(ctx.runId, messageId, "custom"),
          TextMessageContent(ctx.runId, messageId, chunk.content, "custom"),
          TextMessageEnd(ctx.runId, messageId, "custom") >>

ManuallyEmitToolCall(chunk, ctx) ==
    LET toolCallId == IF chunk.value_id # "" THEN chunk.value_id ELSE ctx.runId
    IN << ToolCallStart(ctx.runId, toolCallId, chunk.tool, "custom"),
          ToolCallArgs(ctx.runId, toolCallId, "args", "custom"),
          ToolCallEnd(ctx.runId, toolCallId, "custom") >>

\* A handler that emits the snapshot of an intermediate state without
\* keeping it.
handleCustomEvent_NoStore(chunk, ctx) ==
    IF chunk.name = CopilotKitManuallyEmitIntermediateState
    THEN Unchanged(ctx, <<StateSnapshot(ctx.runId, chunk.state, "custom")>>)
    ELSE Unchanged(ctx, <<>>)

handleCustomEvent(chunk, ctx) ==
    CASE chunk.name = CopilotKitManuallyEmitMessage ->
            Unchanged(ctx, ManuallyEmitMessage(chunk, ctx))
      [] chunk.name = CopilotKitManuallyEmitToolCall ->
            Unchanged(ctx, ManuallyEmitToolCall(chunk, ctx))
      [] chunk.name = CopilotKitManuallyEmitIntermediateState ->
            Processed(<<StateSnapshot(ctx.runId, chunk.state, "custom")>>,
                      ctx.runId, ctx.startedMessages, ctx.startedToolCalls,
                      chunk.state, FALSE)
      [] chunk.name = CopilotKitExit ->
            Unchanged(ctx, <<Custom(ctx.runId, "Exit", "true", "custom")>>)
      [] OTHER ->
            Unchanged(ctx, <<Custom(ctx.runId,
                                    IF chunk.name # "" THEN chunk.name
                                    ELSE "on_custom_event",
                                    "data", "custom")>>)

\* The metadata case: data.run_id replaces the run id when it is truthy.
MetadataCase(chunk, ctx) ==
    Processed(<<>>, IF chunk.run_id # "" THEN chunk.run_id ELSE ctx.runId,
              ctx.startedMessages, ctx.startedToolCalls,
              ctx.manuallyEmittedState, FALSE)

\* A chunk whose data is null makes the cases that read a field of data throw
\* (metadata, events, error) before anything is emitted; custom reads it with
\* ?. and updates / values pass it through.
processStreamChunk(chunk, ctx) ==
    CASE chunk.event = "metadata" ->
            IF chunk.data_null THEN Threw(ctx) ELSE MetadataCase(chunk, ctx)
      [] chunk.event = "events" ->
            IF chunk.data_null THEN Threw(ctx) ELSE EventsCase(chunk, ctx)
      [] chunk.event = "updates" ->
            Unchanged(ctx, <<StateSnapshot(ctx.runId, chunk.state, "updates")>>)
      [] chunk.event = "values" ->
            Unchanged(ctx, <<StateSnapshot(ctx.runId, chunk.state, "values")>>)
      [] chunk.event = "custom" -> handleCustomEvent(chunk, ctx)
      [] chunk.event = "error" ->
            IF chunk.data_null THEN Threw(ctx)
            ELSE Unchanged(ctx, <<Custom(ctx.runId, "on_error", "data", "error")>>)
      [] OTHER -> Unchanged(ctx, <<>>)

\* ------------------------------------------------------------------ state
VARIABLES
    configLimit,          \* config.historyLimit handed to the constructor (optional)
    historyLimit,         \* this.historyLimit
    activeRun,            \* this.activeRun.manuallyEmittedState (optional)
    pc,                   \* the await the connection is suspended at
    fetched,              \* what getHistory returned (optional list, newest first)
    history,              \* the local `history` after history.reverse()
    transformedMessages,  \* the local of connect
    runId,                \* the local of connect
    joinedRunId,          \* the runId parameter of joinAndProcessStream
    currentRunId,         \* the locals of joinAndProcessStream ...
    manuallyEmittedState,
    startedMessages,
    startedToolCalls,
    out,                  \* every event handed to subscriber.next, in order
    completions,          \* number of subscriber.complete() calls
    calls,                \* the network calls made, in order
    chunks,               \* number of chunks the joined stream has delivered
    cur,                  \* the chunk processed last (optional)
    emitted,              \* the events that chunk's processing handed over
    joinAt,               \* Len(out) when the stream was joined
    chunkErrors,          \* number of "Error processing stream chunk" logs
    errors,               \* number of subscriber.error() calls
    closed,               \* the consumer has unsubscribed
    frozenConfig,         \* this.frozenConfig
    stateExtractor,       \* this.stateExtractor (optional)
    agent,                \* this.agent, the instance given in the configuration
    freshAgents,          \* the agents run() created, with their executions
    answer,               \* what isRunning() or stop() returned last (optional)
    clients,              \* number of Client instances constructed so far
    client,               \* the Client of this connection (optional)
    reply,                \* the network reply received last
    parked                \* the locals of the runner's other connection

vars == << configLimit, historyLimit, activeRun, pc, fetched, history,
           transformedMessages, runId, joinedRunId, currentRunId,
           manuallyEmittedState, startedMessages, startedToolCalls, out,
           completions, calls, chunks, cur, emitted, joinAt, chunkErrors, errors,
           closed, frozenConfig, stateExtractor, agent, freshAgents, answer,
           clients, client, reply, parked >>

agentVars == << stateExtractor, agent, freshAgents, answer >>
runnerVars == << configLimit, historyLimit, frozenConfig, activeRun, agentVars >>
clientVars == << clients, client, parked >>
sessionVars == << joinedRunId, currentRunId, manuallyEmittedState,
                  startedMessages, startedToolCalls, chunks, cur, emitted, joinAt,
                  chunkErrors, errors, closed >>

\* A network call: the operation, its arguments, and the client it is made on.
Call(op, limit, run) == [op |-> op, limit |-> limit, run |-> run, client |-> client]

\* A network reply: the operation, whether it resolved, and what it resolved to.
Reply(op, ok, value) == [op |-> op, ok |-> ok, value |-> value]
NoReply == Reply("", TRUE, None)

\* "hydration_" + Math.random()... and "hydration_error_" + Math.random()...
GeneratedRunId == "hydration_x"
ErrorRunId == "hydration_error_x"

\* An empty path that returns without emitting.
MinimalSequence_Nothing(id) == <<>>

\* The three events of the empty-history path and of the catch of connect.
MinimalSequence(id) ==
    << RunStarted(id), MessagesSnapshot(id, <<>>), RunFinished(id) >>

\* ----------------------------------------------------------- the constructor
\* Math.min(config.historyLimit ?? DEFAULT_HISTORY_LIMIT, MAX_HISTORY_LIMIT)
ConstructedLimit(cfg) ==
    Min(IF cfg = None THEN DEFAULT_HISTORY_LIMIT ELSE cfg[1], MAX_HISTORY_LIMIT)

\* A fetch that passes this.historyLimit as it is.
FetchLimit_Unguarded(limit) == limit

\* limit: this.historyLimit > 0 ? this.historyLimit : DEFAULT_HISTORY_LIMIT
FetchLimit(limit) == IF limit > 0 THEN limit ELSE DEFAULT_HISTORY_LIMIT

\* 30 * 60 * 1000
DEFAULT_TIMEOUT == 1800000

\* The configuration handed to the constructor (the fields frozenConfig keeps).
Config(url, key, timeout) ==
    [deploymentUrl |-> url, graphId |-> "graph", langsmithApiKey |-> key,
     clientTimeoutMs |-> timeout]

\* Object.freeze({deploymentUrl, graphId, langsmithApiKey,
\*                clientTimeoutMs: config.clientTimeoutMs ?? DEFAULT_TIMEOUT})
FrozenConfig(config) ==
    [config EXCEPT !.clientTimeoutMs =
        IF config.clientTimeoutMs = None THEN DEFAULT_TIMEOUT
        ELSE config.clientTimeoutMs[1]]

\* A client constructed once and kept on the runner.
createFreshClient_Cached(n) ==
    [id |-> 1, apiUrl |-> frozenConfig.deploymentUrl,
     apiKey |-> frozenConfig.langsmithApiKey,
     timeoutMs |-> frozenConfig.clientTimeoutMs]

\* createFreshClient: the n-th Client constructed, from the frozen config.
createFreshClient(n) ==
    [id |-> n, apiUrl |-> frozenConfig.deploymentUrl,
     apiKey |-> frozenConfig.langsmithApiKey,
     timeoutMs |-> frozenConfig.clientTimeoutMs]

\* The locals of a connection that has not been subscribed to.
FreshLocals ==
    [pc |-> "idle", fetched |-> None, history |-> <<>>, transformedMessages |-> <<>>,
     runId |-> "", joinedRunId |-> "", currentRunId |-> "",
     manuallyEmittedState |-> None, startedMessages |-> {}, startedToolCalls |-> {},
     out |-> <<>>, completions |-> 0, calls |-> <<>>, chunks |-> 0, cur |-> None,
     emitted |-> <<>>, joinAt |-> 0, chunkErrors |-> 0, errors |-> 0,
     closed |-> FALSE,
     client |-> None,
     reply |-> NoReply]

OneConfig == { Config("https://deployment", None, None) }

\* The agent given in the configuration: an instance the caller keeps as
\* well (it is registered with the runtime), idle at construction.
ConfiguredAgent == [id |-> 0, isRunning |-> FALSE, aborted |-> FALSE]

\* The runner with a connection that has not started and no run; this.activeRun
\* holds what an earlier connection of the runner stored (nothing after
\* construction).
InitFields(limits, configs, overrides, extractors) ==
    /\ configLimit \in limits
    /\ stateExtractor \in extractors
    /\ agent = ConfiguredAgent
    /\ freshAgents = <<>>
    /\ answer = None
    /\ historyLimit = ConstructedLimit(configLimit)
    /\ \E config \in configs : frozenConfig = FrozenConfig(config)
    /\ clients = 0
    /\ client = None
    /\ reply = NoReply
    /\ parked = FreshLocals
    /\ activeRun \in overrides
    /\ pc = "idle"
    /\ fetched = None
    /\ history = <<>>
    /\ transformedMessages = <<>>
    /\ runId = ""
    /\ joinedRunId = ""
    /\ currentRunId = ""
    /\ manuallyEmittedState = None
    /\ startedMessages = {}
    /\ startedToolCalls = {}
    /\ out = <<>>
    /\ completions = 0
    /\ calls = <<>>
    /\ chunks = 0
    /\ cur = None
    /\ emitted = <<>>
    /\ joinAt = 0
    /\ chunkErrors = 0
    /\ errors = 0
    /\ closed = FALSE

\* A runner configured without a state extractor.
InitRunner(limits, configs, overrides) == InitFields(limits, configs, overrides, {None})

\* The runner right after construction: this.activeRun = {}.
InitFrom(limits, configs) == InitRunner(limits, configs, {None})

InitWith(limits) == InitFrom(limits, OneConfig)

\* --------------------------------------------------------------- connect
\* A path that hands over its events and returns without subscriber.complete().
Finish_NoComplete(events) ==
    /\ out' = out \o events
    /\ completions' = completions
    /\ pc' = "done"

\* subscriber.complete() after the events `events`; the connection is over.
\* (No path of connect calls subscriber.error().)
Finish(events) ==
    /\ out' = out \o events
    /\ completions' = completions + 1
    /\ pc' = "done"

\* connect() is called and subscribed to: a fresh Client is constructed,
\* hydrate starts and calls getHistory on it.
Connect ==
    /\ pc = "idle"
    /\ clients' = clients + 1
    /\ client' = Some(createFreshClient(clients + 1))
    /\ calls' = Append(calls, [Call("getHistory", FetchLimit(historyLimit), "")
                                 EXCEPT !.client = client'])
    /\ pc' = "getHistory"
    /\ UNCHANGED << runnerVars, parked, reply, fetched, history, transformedMessages, runId,
                    sessionVars, out, completions >>

\* getHistory returned h (absent, or a list newest first, no longer than the
\* limit asked for): the empty path, or
\* the reversal, both loops, the trim and the projection, up to runs.list.
GetHistoryReturns(histories) ==
    /\ pc = "getHistory"
    /\ \E h \in histories :
          /\ h # None => Len(h[1]) <= FetchLimit(historyLimit)
          /\ fetched' = h
          /\ reply' = Reply("getHistory", TRUE, h)
          /\ IF h = None \/ h[1] = <<>>
             THEN /\ Finish(MinimalSequence(GeneratedRunId))
                  /\ UNCHANGED << history, transformedMessages, calls >>
             ELSE IF ReconstructionThrows(h[1])
             THEN /\ history' = WalkOrder(h[1])
                  /\ Finish(MinimalSequence(ErrorRunId))
                  /\ UNCHANGED << transformedMessages, calls >>
             ELSE /\ history' = WalkOrder(h[1])
                  /\ transformedMessages' = Reconstruct(h[1], historyLimit)
                  /\ calls' = Append(calls, Call("listRuns", 0, ""))
                  /\ pc' = "listRuns"
                  /\ UNCHANGED << out, completions >>
    /\ UNCHANGED << runnerVars, clientVars, runId, sessionVars >>

\* getHistory threw: the catch of connect.
GetHistoryFails ==
    /\ pc = "getHistory"
    /\ reply' = Reply("getHistory", FALSE, None)
    /\ Finish(MinimalSequence(ErrorRunId))
    /\ UNCHANGED << runnerVars, clientVars, fetched, history, transformedMessages, runId,
                    sessionVars, calls >>

\* runs[0].run_id, or a generated id when there is no run.
ResolveRunId(runs) ==
    IF runs # None /\ Len(runs[1]) > 0 THEN runs[1][1].run_id ELSE GeneratedRunId

\* connect with the snapshot handed over before RUN_STARTED.
SnapshotEvents_StartedLate(id, messages, latest) ==
    LET int == FindInterrupt(latest.tasks)
    IN [events |-> << MessagesSnapshot(id, messages), RunStarted(id) >>
                   \o (IF latest.values # None
                       THEN <<StateSnapshot(id, latest.values, "values")>> ELSE <<>>)
                   \o (IF int.found THEN <<OnInterrupt(id, int.value)>> ELSE <<>>),
        threw |-> int.threw]

\* connect with the MESSAGES_SNAPSHOT left for after the stream.
SnapshotEvents_NoMessages(id, messages, latest) ==
    LET int == FindInterrupt(latest.tasks)
    IN [events |-> << RunStarted(id) >>
                   \o (IF latest.values # None
                       THEN <<StateSnapshot(id, latest.values, "values")>> ELSE <<>>)
                   \o (IF int.found THEN <<OnInterrupt(id, int.value)>> ELSE <<>>),
        threw |-> int.threw]

\* The events from RUN_STARTED to the interrupt signal, for the newest
\* checkpoint `latest`; threw when the interrupt search throws.
SnapshotEvents(id, messages, latest) ==
    LET int == FindInterrupt(latest.tasks)
    IN [events |-> << RunStarted(id), MessagesSnapshot(id, messages) >>
                   \o (IF latest.values # None
                       THEN <<StateSnapshot(id, latest.values, "values")>> ELSE <<>>)
                   \o (IF int.found THEN <<OnInterrupt(id, int.value)>> ELSE <<>>),
        threw |-> int.threw]

IsThreadBusy(latest) == Len(latest.next) > 0

\* The code from the resolution of runId to the second runs.list (busy
\* thread), to RUN_FINISHED (idle thread), or to the catch (a throw).
EmitSnapshot(id) ==
    LET latest == history[Len(history)]
        snap == SnapshotEvents(id, transformedMessages, latest)
    IN /\ runId' = id
       /\ IF snap.threw
          THEN /\ Finish(snap.events \o MinimalSequence(ErrorRunId))
               /\ UNCHANGED calls
          ELSE IF IsThreadBusy(latest)
          THEN /\ out' = out \o snap.events
               /\ calls' = Append(calls, Call("listRuns", 0, ""))
               /\ pc' = "activeRuns"
               /\ UNCHANGED completions
          ELSE /\ Finish(Append(snap.events, RunFinished(id)))
               /\ UNCHANGED calls
       /\ UNCHANGED << runnerVars, clientVars, fetched, history, transformedMessages, sessionVars >>

ListRunsReturns(runLists) ==
    /\ pc = "listRuns"
    /\ \E runs \in runLists :
          /\ reply' = Reply("listRuns", TRUE, runs)
          /\ EmitSnapshot(ResolveRunId(runs))

ListRunsFails ==
    /\ pc = "listRuns"
    /\ reply' = Reply("listRuns", FALSE, None)
    /\ EmitSnapshot(GeneratedRunId)

\* A lookup that takes only a running run for active.
RECURSIVE FindActive_RunningOnly(_)
FindActive_RunningOnly(runs) ==
    IF runs = <<>> THEN None
    ELSE IF Head(runs).status = "running" THEN Some(Head(runs))
    ELSE FindActive_RunningOnly(Tail(runs))

\* runs?.find(run => run.status === "running" || run.status === "pending")
RECURSIVE FindActive(_)
FindActive(runs) ==
    IF runs = <<>> THEN None
    ELSE IF Head(runs).status \in {"running", "pending"} THEN Some(Head(runs))
    ELSE FindActive(Tail(runs))

ActiveRunOf(runs) == IF runs = None THEN None ELSE FindActive(runs[1])

\* With an active run: joinAndProcessStream up to the first chunk.  Without
\* one: RUN_FINISHED and complete.
JoinOrFinish(active) ==
    IF active # None
    THEN /\ joinedRunId' = active[1].run_id
         /\ currentRunId' = active[1].run_id
         /\ manuallyEmittedState' = activeRun
         /\ startedMessages' = {}
         /\ startedToolCalls' = {}
         /\ calls' = Append(calls, Call("joinStream", 0, active[1].run_id))
         /\ joinAt' = Len(out)
         /\ pc' = "stream"
         /\ UNCHANGED << runnerVars, clientVars, fetched, history, transformedMessages, runId,
                         out, completions, chunks, cur, emitted, chunkErrors,
                         errors, closed >>
    ELSE /\ Finish(<<RunFinished(runId)>>)
         /\ UNCHANGED << runnerVars, clientVars, fetched, history, transformedMessages, runId,
                         sessionVars, calls >>

ActiveRunsReturns(runLists) ==
    /\ pc = "activeRuns"
    /\ \E runs \in runLists :
          /\ reply' = Reply("listRuns", TRUE, runs)
          /\ JoinOrFinish(ActiveRunOf(runs))

ActiveRunsFails ==
    /\ pc = "activeRuns"
    /\ reply' = Reply("listRuns", FALSE, None)
    /\ JoinOrFinish(None)

\* ------------------------------------------------- joinAndProcessStream
Context ==
    [runId |-> currentRunId, startedMessages |-> startedMessages,
     startedToolCalls |-> startedToolCalls,
     manuallyEmittedState |-> manuallyEmittedState]

\* A loop without the try / catch around processStreamChunk: a chunk that
\* throws ends the stream through the outer catch.
ChunkArrives_NoCatch(chunkSet) ==
    /\ pc = "stream"
    /\ chunks < MaxChunks
    /\ \E chunk \in chunkSet :
          LET r == processStreamChunk(chunk, Context)
          IN /\ cur' = Some(chunk)
             /\ emitted' = r.events
             /\ startedMessages' = r.startedMessages
             /\ startedToolCalls' = r.startedToolCalls
             /\ currentRunId' = IF r.threw THEN currentRunId ELSE r.runId
             /\ manuallyEmittedState' =
                   IF r.threw THEN manuallyEmittedState ELSE r.manuallyEmittedState
             /\ IF r.threw
                THEN Finish(<<RunFinished(joinedRunId)>>)
                ELSE out' = out \o r.events /\ UNCHANGED << pc, completions >>
    /\ chunks' = chunks + 1
    /\ UNCHANGED << runnerVars, clientVars, reply, fetched, history, transformedMessages,
                    runId, joinedRunId, calls, joinAt, chunkErrors, errors,
                    closed >>

\* One iteration of the for-await loop: the chunk is processed; when that
\* throws, the error is logged and currentRunId and manuallyEmittedState keep
\* their values.
ChunkArrives(chunkSet) ==
    /\ pc = "stream"
    /\ chunks < MaxChunks
    /\ \E chunk \in chunkSet :
          LET r == processStreamChunk(chunk, Context)
          IN /\ out' = out \o r.events
             /\ emitted' = r.events
             /\ cur' = Some(chunk)
             /\ startedMessages' = r.startedMessages
             /\ startedToolCalls' = r.startedToolCalls
             /\ currentRunId' = IF r.threw THEN currentRunId ELSE r.runId
             /\ manuallyEmittedState' =
                   IF r.threw THEN manuallyEmittedState ELSE r.manuallyEmittedState
             /\ chunkErrors' = IF r.threw THEN chunkErrors + 1 ELSE chunkErrors
    /\ chunks' = chunks + 1
    /\ UNCHANGED << runnerVars, clientVars, reply, pc, fetched, history, transformedMessages, runId,
                    joinedRunId, completions, calls, joinAt, errors, closed >>

\* The stream ended: the override state is stored on the runner, then getState.
StreamEnds ==
    /\ pc = "stream"
    /\ activeRun' = manuallyEmittedState
    /\ calls' = Append(calls, Call("getState", 0, ""))
    /\ pc' = "getState"
    /\ UNCHANGED << configLimit, historyLimit, frozenConfig, agentVars, clientVars, reply,
                    fetched, history, transformedMessages, runId, sessionVars,
                    out, completions >>

\* A join failure handled like a hydration failure: the fallback sequence.
StreamFails_Fallback ==
    /\ pc = "stream"
    /\ Finish(MinimalSequence(ErrorRunId))
    /\ UNCHANGED << runnerVars, clientVars, reply, fetched, history,
                    transformedMessages, runId, sessionVars, calls >>

\* A catch of joinAndProcessStream that only rethrows.
StreamFails_NoFinish ==
    /\ pc = "stream"
    /\ Finish(<<>>)
    /\ UNCHANGED << runnerVars, clientVars, reply, fetched, history, transformedMessages, runId,
                    sessionVars, calls >>

\* Opening or iterating the stream threw: the outer catch of
\* joinAndProcessStream emits RUN_FINISHED with its runId parameter and
\* rethrows; connect logs and completes.
StreamFails ==
    /\ pc = "stream"
    /\ Finish(<<RunFinished(joinedRunId)>>)
    /\ UNCHANGED << runnerVars, clientVars, reply, fetched, history, transformedMessages, runId,
                    sessionVars, calls >>

\* A joinAndProcessStream that finishes without reading the thread state.
AfterStreamEvents_NoRecheck(state, id) == <<RunFinished(id)>>

\* The events after the stream: the interrupt signal when getState shows one
\* (state absent, or a null task reached: the inner catch), then RUN_FINISHED.
AfterStreamEvents(state, id) ==
    LET int == IF state = None THEN [threw |-> TRUE, found |-> FALSE, value |-> ""]
               ELSE FindInterrupt(state[1].tasks)
    IN (IF int.found THEN <<OnInterrupt(id, int.value)>> ELSE <<>>)
       \o <<RunFinished(id)>>

GetStateReturns(states) ==
    /\ pc = "getState"
    /\ \E state \in states :
          /\ reply' = Reply("getState", TRUE, state)
          /\ Finish(AfterStreamEvents(state, currentRunId))
    /\ UNCHANGED << runnerVars, clientVars, fetched, history, transformedMessages, runId,
                    sessionVars, calls >>

GetStateFails ==
    /\ pc = "getState"
    /\ reply' = Reply("getState", FALSE, None)
    /\ Finish(<<RunFinished(currentRunId)>>)
    /\ UNCHANGED << runnerVars, clientVars, fetched, history, transformedMessages, runId,
                    sessionVars, calls >>

\* ------------------------------------------------- two connections
\* The locals of the connection being served.
Locals ==
    [pc |-> pc, fetched |-> fetched, history |-> history,
     transformedMessages |-> transformedMessages, runId |-> runId,
     joinedRunId |-> joinedRunId, currentRunId |-> currentRunId,
     manuallyEmittedState |-> manuallyEmittedState,
     startedMessages |-> startedMessages, startedToolCalls |-> startedToolCalls,
     out |-> out, completions |-> completions, calls |-> calls, chunks |-> chunks,
     cur |-> cur, emitted |-> emitted, joinAt |-> joinAt,
     chunkErrors |-> chunkErrors, errors |-> errors, closed |-> closed,
     client |-> client, reply |-> reply]

\* What a switch does to the locals other than the two started sets.
SwitchRest ==
    /\ parked' = Locals
    /\ pc' = parked.pc
    /\ fetched' = parked.fetched
    /\ history' = parked.history
    /\ transformedMessages' = parked.transformedMessages
    /\ runId' = parked.runId
    /\ joinedRunId' = parked.joinedRunId
    /\ currentRunId' = parked.currentRunId
    /\ manuallyEmittedState' = parked.manuallyEmittedState
    /\ out' = parked.out
    /\ completions' = parked.completions
    /\ calls' = parked.calls
    /\ chunks' = parked.chunks
    /\ cur' = parked.cur
    /\ emitted' = parked.emitted
    /\ joinAt' = parked.joinAt
    /\ chunkErrors' = parked.chunkErrors
    /\ errors' = parked.errors
    /\ closed' = parked.closed
    /\ client' = parked.client
    /\ reply' = parked.reply
    /\ UNCHANGED << runnerVars, clients >>

\* Started sets that are fields of the runner: a switch leaves them alone.
Switch_SharedSets ==
    /\ SwitchRest
    /\ UNCHANGED << startedMessages, startedToolCalls >>

\* Between two awaits the event loop serves one connection; at an await it
\* may turn to the runner's other connection.  The locals of connect and of
\* joinAndProcessStream (the two `new Set` among them) go with their
\* connection; the fields of the runner stay.
Switch ==
    /\ SwitchRest
    /\ startedMessages' = parked.startedMessages
    /\ startedToolCalls' = parked.startedToolCalls

\* ------------------------------------------------------------ unsubscribe
\* The consumer unsubscribes while hydrate is under way.  The function handed
\* to `new Observable` returns no teardown and hydrate never reads
\* subscriber.closed: nothing but the subscriber's own state changes.
Unsubscribe ==
    /\ pc \notin {"idle", "done"}
    /\ ~closed
    /\ closed' = TRUE
    /\ UNCHANGED << runnerVars, clientVars, reply, pc, fetched, history,
                    transformedMessages, runId, joinedRunId, currentRunId,
                    manuallyEmittedState, startedMessages, startedToolCalls, out,
                    completions, calls, chunks, cur, emitted, joinAt, chunkErrors,
                    errors >>

\* -------------------------------------------------- run, isRunning, stop
connectVars == << pc, fetched, history, transformedMessages, runId, out,
                  completions, calls, reply >>

\* request.input.state || {}
EmptyState == << >>
ExistingState(request) ==
    IF request.state = None THEN EmptyState ELSE request.state[1]

\* A spread in the other order: a's value where both have the key.
Spread_ExistingWins(a, b) ==
    [k \in (DOMAIN a) \cup (DOMAIN b) |-> IF k \in DOMAIN a THEN a[k] ELSE b[k]]

\* { ...a, ...b }: the keys of both, b's value where both have the key.
Spread(a, b) ==
    [k \in (DOMAIN a) \cup (DOMAIN b) |-> IF k \in DOMAIN b THEN b[k] ELSE a[k]]

\* enrichedState: the existing state with the extractor's map spread over
\* it, or the existing state when no extractor is configured.
EnrichedState(request) ==
    IF stateExtractor # None
    THEN Spread(ExistingState(request), stateExtractor[1][request])
    ELSE ExistingState(request)

\* createFreshAgent: the n-th agent made by createIsolatedAgent.
createFreshAgent(n) ==
    [id |-> n, isRunning |-> FALSE, aborted |-> FALSE, state |-> EmptyState,
     input |-> None, request |-> None]

\* run(request): a fresh agent is created, given the enriched state, and run
\* with the input whose state is the enriched state.
RunAgent(requests) ==
    /\ Len(freshAgents) < MaxRuns
    /\ \E request \in requests :
          LET freshAgent == createFreshAgent(Len(freshAgents) + 1)
              enrichedState == EnrichedState(request)
              inputWithState == [request EXCEPT !.state = Some(enrichedState)]
          IN freshAgents' = Append(freshAgents,
                                   [freshAgent EXCEPT !.state = enrichedState,
                                                      !.input = Some(inputWithState),
                                                      !.request = Some(request),
                                                      !.isRunning = TRUE])
    /\ UNCHANGED << configLimit, historyLimit, frozenConfig, activeRun,
                    stateExtractor, agent, answer, clientVars, sessionVars,
                    connectVars >>

\* The execution of a fresh agent comes to its end.
RunEnds ==
    /\ \E i \in 1..Len(freshAgents) :
          /\ freshAgents[i].isRunning
          /\ freshAgents' = [freshAgents EXCEPT ![i].isRunning = FALSE]
    /\ UNCHANGED << configLimit, historyLimit, frozenConfig, activeRun,
                    stateExtractor, agent, answer, clientVars, sessionVars,
                    connectVars >>

\* isRunning(): this.agent.isRunning.
IsRunning ==
    /\ answer' = Some([op |-> "isRunning", value |-> agent.isRunning])
    /\ UNCHANGED << configLimit, historyLimit, frozenConfig, activeRun,
                    stateExtractor, agent, freshAgents, clientVars, sessionVars,
                    connectVars >>

\* stop(): this.agent.abortRun(), which returns nothing, so true.
Stop ==
    /\ agent' = [agent EXCEPT !.aborted = TRUE]
    /\ answer' = Some([op |-> "stop", value |-> TRUE])
    /\ UNCHANGED << configLimit, historyLimit, frozenConfig, activeRun,
                    stateExtractor, freshAgents, clientVars, sessionVars,
                    connectVars >>

\* The caller, who keeps the configured instance, starts or ends a run of
\* its own on it.
CallerRunsAgent ==
    /\ agent' = [agent EXCEPT !.isRunning = ~agent.isRunning, !.aborted = FALSE]
    /\ UNCHANGED << configLimit, historyLimit, frozenConfig, activeRun,
                    stateExtractor, freshAgents, answer, clientVars, sessionVars,
                    connectVars >>

\* ------------------------------------------------------------------ inputs
\* Message ids are 1..NumIds; the type of a message goes with its id, the
\* third being a type transformMessages does not know.
MsgIds == 1..NumIds
MsgTypes == << "human", "ai", "remove", "tool", "system" >>
TypeOf(i) == MsgTypes[((i - 1) % Len(MsgTypes)) + 1]

\* A checkpoint writes every message with the content of its revision, so
\* the same id has different content in checkpoints of different revisions.
Revisions == {"a", "b"}
Msg(i, rev) ==
    [isNull |-> FALSE, id |-> i, type |-> TypeOf(i),
     content |-> [kind |-> "string", text |-> <<rev>>, blocks |-> <<>>]]

\* Records the declared types exclude but JSON allows: a null in the message
\* list, and a content array with a null block; and a well-formed content array.
NullMsg ==
    [isNull |-> TRUE, id |-> 0, type |-> "",
     content |-> [kind |-> "string", text |-> <<>>, blocks |-> <<>>]]
Block(type, text) == [isNull |-> FALSE, type |-> type, text |-> text]
NullBlock == [isNull |-> TRUE, type |-> "", text |-> <<>>]
ArrayMsg(i, blocks) ==
    [isNull |-> FALSE, id |-> i, type |-> TypeOf(i),
     content |-> [kind |-> "array", text |-> <<>>, blocks |-> blocks]]

\* A checkpoint's message list: at most two messages, with distinct ids.
MsgLists(rev) ==
    {<<>>} \cup {<<Msg(i, rev)>> : i \in MsgIds}
           \cup {<<Msg(p[1], rev), Msg(p[2], rev)>> :
                   p \in {q \in MsgIds \X MsgIds : q[1] # q[2]}}

Values(messages, rev) == [messages |-> messages, other |-> rev]

ValuesRich ==
    {None, Some(Values(None, "a"))}
    \cup UNION { {Some(Values(Some(l), rev)) : l \in MsgLists(rev)} : rev \in Revisions }

ValuesSmall ==
    {None, Some(Values(None, "a")), Some(Values(Some(<<Msg(1, "a")>>), "a")),
     Some(Values(Some(<<Msg(2, "a"), NullMsg>>), "a")),
     Some(Values(Some(<<ArrayMsg(2, <<Block("text", <<"x">>), NullBlock>>),
                        Msg(3, "a"),
                        ArrayMsg(4, <<Block("text", <<"x">>), Block("image", <<>>),
                                      Block("text", <<"y">>)>>),
                        Msg(1, "a")>>), "a"))}

Task(interrupts) == [ok |-> TRUE, interrupts |-> interrupts]
NullTask == [ok |-> FALSE, interrupts |-> <<>>]

TaskLists ==
    { <<>>,
      <<Task(<<>>)>>,
      <<Task(<<>>), Task(<<"i1", "i2">>), Task(<<"i3">>)>>,
      <<Task(<<"i1">>), NullTask>>,
      <<NullTask, Task(<<"i1">>)>> }

NextLists == { <<>>, <<"node">> }

Checkpoint(values, next, tasks) == [values |-> values, next |-> next, tasks |-> tasks]

\* An older checkpoint of the orchestration inputs: busy, with an interrupt
\* of its own, so that reading the wrong end of the list shows.
OldCheckpoint ==
    Checkpoint(Some(Values(Some(<<Msg(1, "b")>>), "b")), <<"old">>, <<Task(<<"i0">>)>>)

RECURSIVE Olds(_)
Olds(n) == IF n = 0 THEN <<>> ELSE <<OldCheckpoint>> \o Olds(n - 1)

\* Lists of at most n checkpoints drawn from set.
RECURSIVE ListsUpTo(_, _)
ListsUpTo(set, n) ==
    IF n = 0 THEN {<<>>}
    ELSE LET shorter == ListsUpTo(set, n - 1)
         IN shorter \cup {<<c>> \o l : c \in set, l \in {x \in shorter : Len(x) = n - 1}}

\* getHistory results of the orchestration specification: every newest
\* checkpoint over small values, followed by older checkpoints.
HistoriesOrch ==
    {None, Some(<<>>)}
    \cup {Some(<<Checkpoint(v, nx, t)>> \o Olds(k)) :
            v \in ValuesSmall, nx \in NextLists, t \in TaskLists, k \in 0..(MaxCkpts - 1)}

\* getHistory results of the reconstruction specification: every list of idle
\* checkpoints over the rich values, and one busy thread.
BusyHistory == Some(<<Checkpoint(Some(Values(Some(<<Msg(1, "a")>>), "a")), <<"node">>, <<>>)>>)

HistoriesRich ==
    {None, BusyHistory}
    \cup {Some(l) : l \in ListsUpTo({Checkpoint(v, <<>>, <<>>) : v \in ValuesRich}, MaxCkpts)}

HistoriesFew ==
    {Some(<<>>), BusyHistory,
     Some(<<Checkpoint(Some(Values(Some(<<Msg(1, "a")>>), "a")), <<>>, <<>>)>>)}

Run(id, status) == [run_id |-> id, status |-> status]

RunLists ==
    { None, Some(<<>>),
      Some(<<Run("r1", "success")>>),
      Some(<<Run("r1", "running")>>),
      Some(<<Run("r1", "success"), Run("r2", "pending"), Run("r1", "running")>>),
      Some(<<Run("r2", "error"), Run("r1", "success")>>) }

RunListsFew == { Some(<<>>), Some(<<Run("r1", "running")>>) }

\* getState results: absent (null), or a thread state with tasks.
ThreadStates ==
    {None} \cup {Some(Checkpoint(None, <<>>, t)) : t \in TaskLists}

ThreadStatesFew ==
    { Some(Checkpoint(None, <<>>, <<>>)),
      Some(Checkpoint(None, <<>>, <<Task(<<"i1">>)>>)) }

\* Stream chunks.  Every chunk has all the fields; a field a chunk kind does
\* not read holds its default.
Chunk0 ==
    [event |-> "", data_null |-> FALSE, run_id |-> "", ev |-> "", name |-> "",
     content |-> "", predict |-> FALSE, input |-> "absent",
     emitMessages |-> "absent", emitToolCalls |-> "absent",
     value_id |-> "", tool |-> "", state |-> None]

Flags == { <<"absent", "absent">>, <<"false", "absent">>, <<"absent", "false">> }
NestedIds == {"", "m1"}

EventsChunk(ev, id, f) ==
    [Chunk0 EXCEPT !.event = "events", !.ev = ev, !.run_id = id, !.name = "model",
                   !.emitMessages = f[1], !.emitToolCalls = f[2]]

StreamChunks ==
    { [EventsChunk("on_chat_model_stream", id, f) EXCEPT !.content = c[1], !.predict = c[2]] :
        id \in NestedIds, f \in Flags, c \in { <<"", FALSE>>, <<"t", FALSE>>, <<"t", TRUE>> } }

ModelChunks ==
    { EventsChunk(ev, id, f) :
        ev \in {"on_chat_model_start", "on_chat_model_end"}, id \in NestedIds, f \in Flags }

\* data.input of a tool start: not there, a falsy value such as "", a value.
ToolInputs == {"absent", "empty", "value"}

ToolChunks ==
    { [EventsChunk("on_tool_start", id, f) EXCEPT !.name = "search", !.input = i] :
        id \in NestedIds, f \in Flags, i \in ToolInputs }
    \cup { [EventsChunk("on_tool_end", id, f) EXCEPT !.name = "search"] :
             id \in NestedIds, f \in Flags }

ChainChunks == { EventsChunk("on_chain_start", "", f) : f \in Flags }

CustomChunk(name) == [Chunk0 EXCEPT !.event = "custom", !.name = name]

StateS1 == Some(Values(None, "s1"))

CustomChunks ==
    { [CustomChunk(CopilotKitManuallyEmitMessage) EXCEPT
          !.value_id = id, !.content = "hello", !.emitMessages = f] :
        id \in NestedIds, f \in {"absent", "false"} }
    \cup { [CustomChunk(CopilotKitManuallyEmitToolCall) EXCEPT
              !.value_id = id, !.tool = "search", !.emitToolCalls = f] :
             id \in NestedIds, f \in {"absent", "false"} }
    \cup { [CustomChunk(CopilotKitManuallyEmitIntermediateState) EXCEPT !.state = st] :
             st \in {None, StateS1} }
    \cup { CustomChunk(CopilotKitExit), CustomChunk("my_event"), CustomChunk("") }

OtherChunks ==
    { [Chunk0 EXCEPT !.event = "metadata", !.run_id = id] : id \in {"", "r2"} }
    \cup { [Chunk0 EXCEPT !.event = e, !.data_null = TRUE] : e \in {"metadata", "events", "error"} }
    \cup { [Chunk0 EXCEPT !.event = "updates", !.state = Some(Values(None, "u1"))],
           [Chunk0 EXCEPT !.event = "values", !.state = Some(Values(None, "v1"))],
           [Chunk0 EXCEPT !.event = "error"],
           [Chunk0 EXCEPT !.event = "debug"] }

Chunks == StreamChunks \cup ModelChunks \cup ToolChunks \cup ChainChunks
          \cup CustomChunks \cup OtherChunks

ChunksFew ==
    { [EventsChunk("on_chat_model_stream", "m1", <<"absent", "absent">>) EXCEPT !.content = "t"],
      [EventsChunk("on_tool_end", "", <<"absent", "absent">>) EXCEPT !.name = "search"],
      [Chunk0 EXCEPT !.event = "values", !.state = Some(Values(None, "v1"))],
      [Chunk0 EXCEPT !.event = "metadata", !.run_id = "r2"],
      [CustomChunk(CopilotKitManuallyEmitIntermediateState) EXCEPT !.state = StateS1] }

\* historyLimit as configured: absent, zero, or small enough to trim.
TrimmingLimits == {None, Some(0)} \cup {Some(n) : n \in 1..(NumIds - 1)}

\* ---------------------------------------------------------- specifications
NextWith(histories, runLists, chunkSet, states) ==
    \/ Connect
    \/ GetHistoryReturns(histories)
    \/ GetHistoryFails
    \/ ListRunsReturns(runLists)
    \/ ListRunsFails
    \/ ActiveRunsReturns(runLists)
    \/ ActiveRunsFails
    \/ ChunkArrives(chunkSet)
    \/ StreamEnds
    \/ StreamFails
    \/ GetStateReturns(states)
    \/ GetStateFails

\* The orchestration of one connection.
Init == InitWith({None, Some(1)})
Next == NextWith(HistoriesOrch, RunLists, ChunksFew, ThreadStates)
Spec == Init /\ [][Next]_vars

\* The reconstruction of the message list from rich checkpoint lists.
InitHistory == InitWith(TrimmingLimits)
NextHistory == NextWith(HistoriesRich, RunListsFew, ChunksFew, ThreadStatesFew)
SpecHistory == InitHistory /\ [][NextHistory]_vars

\* The normalizer over every chunk kind.
InitStream == InitWith({None})
NextStream == NextWith(HistoriesFew, RunListsFew, Chunks, ThreadStatesFew)
SpecStream == InitStream /\ [][NextStream]_vars

\* Message content of every shape: strings, arrays of at most MaxBlocks
\* blocks (text blocks with and without text, blocks of another kind with
\* and without text), and values that are neither (null, an object with a
\* text field).  A text is its sequence of characters.
ContentBlocks ==
    { Block("text", <<"a">>), Block("text", <<"b", "c">>), Block("text", <<>>),
      Block("image", <<"x">>), Block("image", <<>>) }

Contents ==
    { [kind |-> "string", text |-> t, blocks |-> <<>>] :
        t \in { <<>>, <<"a">>, <<"a", "\n", "b">> } }
    \cup { [kind |-> "array", text |-> <<>>, blocks |-> l] :
             l \in ListsUpTo(ContentBlocks, MaxBlocks) }
    \cup { [kind |-> "null", text |-> <<>>, blocks |-> <<>>],
           [kind |-> "object", text |-> <<"a">>, blocks |-> <<>>] }

\* A thread of one idle checkpoint with one message, human or ai (the
\* specification adds the empty and the busy thread of HistoriesFew).
HistoriesContent ==
    { Some(<<Checkpoint(Some(Values(Some(<<[Msg(i, "a") EXCEPT !.content = c]>>), "a")),
                        <<>>, <<>>)>>) :
        i \in {1, 2}, c \in Contents }

\* The projector over every content shape.
InitContent == InitWith({None})
NextContent ==
    NextWith(HistoriesContent \cup HistoriesFew, RunListsFew,
             { [Chunk0 EXCEPT !.event = "values", !.state = Some(Values(None, "v1"))] },
             { Some(Checkpoint(None, <<>>, <<>>)) })
SpecContent == InitContent /\ [][NextContent]_vars

\* Requests of run(): a state that is absent, has one key, or two; with and
\* without forwardedProps.
RequestStates == { None, Some([a |-> "x"]), Some([a |-> "x", b |-> "y"]) }
Requests ==
    { [threadId |-> "t1", state |-> st, forwardedProps |-> fp] :
        st \in RequestStates, fp \in {None, Some("p")} }

\* State extractors, as their tables: one that returns the same map for
\* every input, one that reads forwardedProps and returns nothing without them.
Extractors ==
    { [request \in Requests |-> [a |-> "e"]],
      [request \in Requests |->
          IF request.forwardedProps = None THEN EmptyState
          ELSE [b |-> request.forwardedProps[1], c |-> "e"]] }

\* run, isRunning and stop on a runner with or without a state extractor.
InitRun == InitFields({None}, OneConfig, {None}, {None} \cup {Some(f) : f \in Extractors})
NextRun == RunAgent(Requests) \/ RunEnds \/ IsRunning \/ Stop \/ CallerRunsAgent
SpecRun == InitRun /\ [][NextRun]_vars

\* Threads whose checkpoints differ in the messages they hold: every list
\* of at most MaxCkpts idle checkpoints over the message lists of one
\* revision, and the busy thread.
HistoriesUnion ==
    {BusyHistory}
    \cup {Some(l) :
            l \in ListsUpTo({Checkpoint(Some(Values(Some(ms), "a")), <<>>, <<>>) :
                               ms \in MsgLists("a")}, MaxCkpts)}

InitUnion == InitWith(TrimmingLimits)
NextUnion == NextWith(HistoriesUnion, RunListsFew, ChunksFew, ThreadStatesFew)
SpecUnion == InitUnion /\ [][NextUnion]_vars

\* Threads whose checkpoints hold the same message id in different revisions:
\* the getHistory results of the specification of message versions.
VersionLists ==
    { <<Msg(1, "a")>>,
      <<Msg(1, "b")>>,
      <<Msg(1, "b"), Msg(2, "a")>>,
      <<Msg(2, "b"), Msg(1, "a")>>,
      <<Msg(1, "a"), Msg(1, "b")>> }

HistoriesVersions ==
    {BusyHistory}
    \cup {Some(l) :
            l \in ListsUpTo({Checkpoint(Some(Values(Some(ms), "a")), <<>>, <<>>) :
                               ms \in VersionLists}, MaxCkpts)}

InitVersions == InitWith({None, Some(1)})
NextVersions == NextWith(HistoriesVersions, RunListsFew, ChunksFew, ThreadStatesFew)
SpecVersions == InitVersions /\ [][NextVersions]_vars

\* The normalizer on a runner whose earlier connection may have stored an
\* override state.
StateS0 == Some(Values(None, "s0"))
InitOverride == InitRunner({None}, OneConfig, {None, StateS0})
\* Every custom chunk, every chunk of the other stream modes, and one chunk of
\* each nested event of the events mode.
OverrideChunks ==
    CustomChunks \cup OtherChunks
    \cup { EventsChunk(ev, "m1", <<"absent", "absent">>) :
             ev \in {"on_chat_model_stream", "on_chat_model_start", "on_chat_model_end",
                     "on_tool_start", "on_tool_end", "on_chain_start"} }

NextOverride == NextWith(HistoriesFew, RunListsFew, OverrideChunks, ThreadStatesFew)
SpecOverride == InitOverride /\ [][NextOverride]_vars

\* The connection of a runner configured with any historyLimit: absent,
\* negative, zero, small, at the ceiling and above it.
ConfiguredLimits ==
    {None} \cup {Some(n) : n \in {-1, 0, 1, 2, MAX_HISTORY_LIMIT - 1, MAX_HISTORY_LIMIT,
                                  MAX_HISTORY_LIMIT + 1, 5 * MAX_HISTORY_LIMIT}}
InitLimit == InitWith(ConfiguredLimits)
NextLimit == NextWith(HistoriesFew, RunListsFew, ChunksFew, ThreadStatesFew)
SpecLimit == InitLimit /\ [][NextLimit]_vars

\* One connection that the consumer may unsubscribe from.
InitStop == InitWith({None})
NextStop ==
    \/ NextWith(HistoriesFew, RunListsFew, ChunksFew, ThreadStatesFew)
    \/ Unsubscribe
SpecStop == InitStop /\ [][NextStop]_vars

\* One connection whose network calls all return or fail in the end and whose
\* joined stream ends or fails in the end: once subscribed, the step the
\* connection is waiting for is taken.
InitLive == InitWith({None})
NextLive == NextWith(HistoriesFew, RunListsFew, ChunksFew, ThreadStatesFew)
SpecLive == InitLive /\ [][NextLive]_vars /\ WF_vars(pc # "idle" /\ NextLive)

\* Two connections served by one runner, interleaved at their awaits.
PeerConfigs ==
    { Config("https://deployment", None, None),
      Config("https://other", Some("key"), Some(5000)) }

PeerChunks ==
    { [EventsChunk("on_chat_model_stream", "m1", <<"absent", "absent">>) EXCEPT !.content = "t"],
      [EventsChunk("on_tool_end", "m1", <<"absent", "absent">>) EXCEPT !.name = "search"],
      [CustomChunk(CopilotKitManuallyEmitIntermediateState) EXCEPT !.state = StateS1] }

PeerRunLists == { Some(<<Run("r1", "running")>>) }
PeerStates == { Some(Checkpoint(None, <<>>, <<>>)) }

InitPeers == InitFrom({None}, PeerConfigs)
NextPeers ==
    \/ NextWith({BusyHistory}, PeerRunLists, PeerChunks, PeerStates)
    \/ Switch
SpecPeers == InitPeers /\ [][NextPeers]_vars

\* ------------------------------------------------- reading the event log
FetchedList == IF fetched = None THEN <<>> ELSE fetched[1]

\* The connection emitted the hydrated snapshot (RUN_STARTED and then
\* MESSAGES_SNAPSHOT for a non-empty fetched list).
Hydrated == FetchedList # <<>> /\ Len(out) >= 2 /\ out[2].type = "MESSAGES_SNAPSHOT"
Snapshot == out[2].messages

\* The messages met when the fetched checkpoints are walked from the oldest
\* (the last of the list) to the newest, each in list order.
RECURSIVE OldestFirstFrom(_, _)
OldestFirstFrom(list, k) ==
    IF k = 0 THEN <<>>
    ELSE CheckpointMessages(list[k]) \o OldestFirstFrom(list, k - 1)

Encounter == OldestFirstFrom(FetchedList, Len(FetchedList))

IsFirstOccurrence(w, i) == \A j \in 1..(i - 1) : w[j].id # w[i].id
FirstPos(w, m) == CHOOSE i \in 1..Len(w) : w[i].id = m /\ IsFirstOccurrence(w, i)

\* The deduplicated sequence: the first occurrences, in encounter order.
Deduplicated(w) ==
    LET seq == w
        firsts == {i \in 1..Len(seq) : IsFirstOccurrence(seq, i)}
        nth(k) == CHOOSE i \in firsts : Cardinality({j \in firsts : j < i}) = k - 1
    IN [k \in 1..Cardinality(firsts) |-> seq[nth(k)]]

Ids(messages) == [k \in 1..Len(messages) |-> messages[k].id]
Occurrences(messages, m) == Cardinality({k \in 1..Len(messages) : messages[k].id = m})
CheckpointsWith(m) ==
    {k \in 1..Len(FetchedList) :
        \E i \in 1..Len(CheckpointMessages(FetchedList[k])) :
            CheckpointMessages(FetchedList[k])[i].id = m}

\* The snapshot lists its messages in the order of their first encounter.
InEncounterOrder(messages) ==
    LET w == Encounter
    IN \A i \in 1..Len(messages) : \A j \in (i + 1)..Len(messages) :
          /\ \E k \in 1..Len(w) : w[k].id = messages[i].id
          /\ \E k \in 1..Len(w) : w[k].id = messages[j].id
          /\ FirstPos(w, messages[i].id) < FirstPos(w, messages[j].id)

\* The part of the deduplicated sequence the trim keeps.
Kept ==
    LET d == Deduplicated(Encounter)
    IN IF historyLimit > 0 /\ Len(d) > historyLimit
       THEN SubSeq(d, Len(d) - historyLimit + 1, Len(d))
       ELSE d
Projectable(msg) == msg.type \in {"human", "ai", "system", "tool"}

C2_OrderPreservation ==
    Hydrated =>
        /\ InEncounterOrder(Snapshot)
        /\ LET kept == Kept
               d == Deduplicated(Encounter)
           IN (Len(kept) = Len(d) /\ \A k \in 1..Len(kept) : Projectable(kept[k]))
              => Ids(Snapshot) = Ids(d)
        /\ (/\ Len(FetchedList) = 2
            /\ Ids(CheckpointMessages(FetchedList[1])) = <<2>>
            /\ Ids(CheckpointMessages(FetchedList[2])) = <<1, 2>>
            /\ configLimit = None)
           => Ids(Snapshot) = <<1, 2>>

C2_Witness ==
    /\ Hydrated
    /\ Len(FetchedList) = 2
    /\ Ids(CheckpointMessages(FetchedList[1])) = <<2>>
    /\ Ids(CheckpointMessages(FetchedList[2])) = <<1, 2>>
    /\ Ids(Snapshot) = <<1, 2>>

\* C3 as stated: when the deduplicated count exceeds the limit, the snapshot
\* has exactly `limit` messages, the projections of the last `limit`
\* deduplicated messages.
C3_Original ==
    Hydrated =>
        LET d == Deduplicated(Encounter)
        IN Len(d) > historyLimit =>
              /\ Len(Snapshot) = historyLimit
              /\ Snapshot = transformMessages(SubSeq(d, Len(d) - historyLimit + 1, Len(d)))

\* C3 as amended: when the limit is positive and the deduplicated count
\* exceeds it, the snapshot is the projection of the last `limit` deduplicated
\* messages (the trim comes after the deduplication and before the
\* projection): it has `limit` messages when each of them is projectable and
\* fewer otherwise; a limit of zero or less trims nothing.
C3_LimitTrimsOldest ==
    Hydrated =>
        LET d == Deduplicated(Encounter)
            last == SubSeq(d, Len(d) - historyLimit + 1, Len(d))
        IN /\ (historyLimit > 0 /\ Len(d) > historyLimit) =>
                 /\ Ids(Snapshot) = Ids(SelectSeq(last, Projectable))
                 /\ \A k \in 1..Len(Snapshot) :
                       Snapshot[k].content = SelectSeq(last, Projectable)[k].content.text
                 /\ Len(Snapshot) <= historyLimit
                 /\ (\A k \in 1..Len(last) : Projectable(last[k]))
                    => Len(Snapshot) = historyLimit
           /\ historyLimit <= 0 => Ids(Snapshot) = Ids(SelectSeq(d, Projectable))

C3_Witness ==
    /\ Hydrated
    /\ historyLimit = 2
    /\ Len(Deduplicated(Encounter)) = 3
    /\ Len(Snapshot) = 2
    /\ Ids(Snapshot) = <<Deduplicated(Encounter)[2].id, Deduplicated(Encounter)[3].id>>

\* ------------------------------------------------ reading the stream events
ModelEvents == {"on_chat_model_start", "on_chat_model_stream", "on_chat_model_end"}
TextMessageTypes == {"TEXT_MESSAGE_START", "TEXT_MESSAGE_CONTENT", "TEXT_MESSAGE_END"}
ToolCallTypes == {"TOOL_CALL_START", "TOOL_CALL_ARGS", "TOOL_CALL_END"}

\* Where the chat-model events of the stream put a TEXT_MESSAGE_START, and a
\* TEXT_MESSAGE_CONTENT, for message id m.
ModelStarts(m) ==
    {i \in 1..Len(out) :
        out[i].type = "TEXT_MESSAGE_START" /\ out[i].id = m /\ out[i].raw \in ModelEvents}
ModelContents(m) ==
    {i \in 1..Len(out) :
        out[i].type = "TEXT_MESSAGE_CONTENT" /\ out[i].id = m
        /\ out[i].raw = "on_chat_model_stream"}

\* While the stream is read: the chunk processed last is a well-formed chunk
\* of the `events` category, the number of events emitted before it, and the
\* id its nested event is about.
LastIsEvents == cur # None /\ cur[1].event = "events" /\ ~cur[1].data_null
EmittedFrom == Len(out) - Len(emitted)
LastUnitId == IF cur[1].run_id # "" THEN cur[1].run_id ELSE currentRunId
EmitsAny(types) == \E k \in 1..Len(emitted) : emitted[k].type \in types
EmittedTypes == [k \in 1..Len(emitted) |-> emitted[k].type]

C5_Original ==
    cur # None =>
        /\ cur[1].emitMessages = "false" => ~EmitsAny(TextMessageTypes)
        /\ cur[1].emitToolCalls = "false" => ~EmitsAny(ToolCallTypes)

\* C5 as amended: a chunk of the `events` category whose metadata carries
\* emit-messages = false emits no TEXT_MESSAGE_* event, and one whose metadata
\* carries emit-tool-calls = false emits no TOOL_CALL_* event; the flags do not
\* apply to `custom` chunks: a "manually emit message" chunk emits its
\* TEXT_MESSAGE_START, _CONTENT, _END and a "manually emit tool call" chunk its
\* TOOL_CALL_START, _ARGS, _END whatever the metadata says.
C5_FlagSuppression ==
    cur # None =>
        /\ cur[1].event = "events" =>
              /\ cur[1].emitMessages = "false" => ~EmitsAny(TextMessageTypes)
              /\ cur[1].emitToolCalls = "false" => ~EmitsAny(ToolCallTypes)
        /\ (cur[1].event = "custom" /\ cur[1].name = CopilotKitManuallyEmitMessage) =>
              EmittedTypes = << "TEXT_MESSAGE_START", "TEXT_MESSAGE_CONTENT",
                                "TEXT_MESSAGE_END" >>
        /\ (cur[1].event = "custom" /\ cur[1].name = CopilotKitManuallyEmitToolCall) =>
              EmittedTypes = << "TOOL_CALL_START", "TOOL_CALL_ARGS", "TOOL_CALL_END" >>

C5_Witness ==
    /\ LastIsEvents
    /\ cur[1].ev = "on_chat_model_stream"
    /\ cur[1].content # ""
    /\ ~cur[1].predict
    /\ cur[1].emitMessages = "false"
    /\ ~EmitsAny(TextMessageTypes)
    /\ chunks = 2
    /\ \E i \in 1..EmittedFrom : out[i].type = "TOOL_CALL_END"

\* C6: processing a well-formed chunk of the `events` category, whatever its
\* nested event and its metadata flags, emits exactly one generic CUSTOM
\* event carrying the nested event's name and payload, after the specialised
\* events.
C6_GenericPassThrough ==
    LastIsEvents =>
        /\ emitted # <<>>
        /\ emitted[Len(emitted)].type = "CUSTOM"
        /\ emitted[Len(emitted)].name = cur[1].ev
        /\ emitted[Len(emitted)].value = "data"
        /\ Cardinality({k \in 1..Len(emitted) :
                           emitted[k].type = "CUSTOM" /\ emitted[k].name = cur[1].ev}) = 1

\* ------------------------------------------ reading the connection's events
Types == [k \in 1..Len(out) |-> out[k].type]
Positions(type) == {i \in 1..Len(out) : out[i].type = type}
Joined == joinedRunId # ""

\* C7: when getHistory gives an empty or absent list the connection emits
\* exactly RUN_STARTED, MESSAGES_SNAPSHOT with no messages, RUN_FINISHED, the
\* three with one synthesized run id, and completes; getHistory is the only
\* call it makes (no run lookup, no stream join).
C7_EmptyHistory ==
    (pc = "done" /\ FetchedList = <<>>) =>
        /\ Types = << "RUN_STARTED", "MESSAGES_SNAPSHOT", "RUN_FINISHED" >>
        /\ out[2].messages = <<>>
        /\ out[1].runId \in {GeneratedRunId, ErrorRunId}
        /\ out[2].runId = out[1].runId
        /\ out[3].runId = out[1].runId
        /\ completions = 1
        /\ calls = << Call("getHistory", FetchLimit(historyLimit), "") >>

C7_Witness ==
    /\ pc = "done"
    /\ fetched = Some(<<>>)
    /\ out = MinimalSequence(GeneratedRunId)
    /\ completions = 1
    /\ Len(calls) = 1

\* C8: on every path of a connection RUN_FINISHED is emitted exactly once, as
\* the last event, and completion is signalled once, after it: a completed
\* connection ends with its only RUN_FINISHED, and a connection that has not
\* completed has emitted none.
C8_RunFinishedOnceAndLast ==
    /\ pc = "done" =>
          /\ completions = 1
          /\ out # <<>>
          /\ Positions("RUN_FINISHED") = {Len(out)}
    /\ pc # "done" =>
          /\ completions = 0
          /\ Positions("RUN_FINISHED") = {}

C8_Witness ==
    /\ pc = "done"
    /\ Joined
    /\ cur # None
    /\ emitted # <<>>
    /\ Positions("RUN_FINISHED") = {Len(out)}
    /\ out[Len(out)].runId = currentRunId

\* C9: the first event handed to the subscriber is RUN_STARTED on every
\* path: nothing is emitted before it, and every completed connection has
\* emitted it.
C9_RunStartedFirst ==
    /\ out # <<>> => out[1].type = "RUN_STARTED"
    /\ pc = "done" => out # <<>>

C9_Witness ==
    /\ Joined
    /\ Len(out) > joinAt
    /\ out[1].type = "RUN_STARTED"
    /\ \E i \in 2..Len(out) : out[i].type \in {"STATE_SNAPSHOT", "CUSTOM"}
    /\ \E i \in 2..Len(out) : out[i].type \in TextMessageTypes

\* C10: in a connection that joins a live stream, the MESSAGES_SNAPSHOT is
\* emitted before the stream is joined, so before every event the normalizer
\* produces from a chunk (the events of a chunk are the last of the log while
\* the stream is read).
C10_SnapshotBeforeStream ==
    Joined =>
        /\ \E j \in 1..joinAt : out[j].type = "MESSAGES_SNAPSHOT"
        /\ (pc = "stream" /\ cur # None) =>
              /\ EmittedFrom >= joinAt
              /\ SubSeq(out, EmittedFrom + 1, Len(out)) = emitted
        /\ \A i \in (joinAt + 1)..Len(out) :
              \E j \in 1..(i - 1) : out[j].type = "MESSAGES_SNAPSHOT"

C10_Witness ==
    /\ Joined
    /\ pc = "stream"
    /\ cur # None
    /\ emitted # <<>>
    /\ emitted[1].type = "TEXT_MESSAGE_START"
    /\ out[joinAt + 1] = emitted[1]
    /\ out[2].type = "MESSAGES_SNAPSHOT"
    /\ joinAt >= 2

\* ------------------------------------------------------ failures of hydrate
\* A failure escaped a step of hydrate into the catch of connect: getHistory
\* rejected, the reconstruction loops threw, or the interrupt search threw.
\* (A rejected runs.list is caught where it is called.)
HistoryFetchFailed == reply = Reply("getHistory", FALSE, None)
InterruptSearchThrew ==
    /\ FetchedList # <<>>
    /\ ~ReconstructionThrows(FetchedList)
    /\ FindInterrupt(FetchedList[1].tasks).threw
FailureEscaped ==
    \/ HistoryFetchFailed
    \/ FetchedList # <<>> /\ ReconstructionThrows(FetchedList)
    \/ InterruptSearchThrew

\* C11: whenever a failure escapes a step of hydration, the whole sequence the
\* consumer receives is RUN_STARTED, MESSAGES_SNAPSHOT with no messages,
\* RUN_FINISHED, followed by completion.
C11_ErrorFallback ==
    (pc = "done" /\ FailureEscaped) =>
        /\ Types = << "RUN_STARTED", "MESSAGES_SNAPSHOT", "RUN_FINISHED" >>
        /\ out[2].messages = <<>>
        /\ completions = 1

\* ------------------------------------------------- the end of a connection
\* The connection took the idle path: history was hydrated, no failure
\* escaped, and no stream was joined.
IdleChosen == pc = "done" /\ FetchedList # <<>> /\ ~FailureEscaped /\ ~Joined
\* The joined stream ended and getState was answered (or rejected).
StreamCompleted == pc = "done" /\ Joined /\ reply.op = "getState"
CallsOf(op) == {k \in 1..Len(calls) : calls[k].op = op}
\* The interrupt the search of the getState reply finds.
Recheck ==
    IF reply.ok /\ reply.value # None THEN FindInterrupt(reply.value[1].tasks)
    ELSE [threw |-> TRUE, found |-> FALSE, value |-> ""]
IsInterruptSignal(e, value) ==
    e.type = "CUSTOM" /\ e.name = "on_interrupt" /\ e.value = value

\* C12 as stated: both after a joined stream completes and on the idle path,
\* the thread state is re-read with getState before RUN_FINISHED.
C12_Original ==
    (IdleChosen \/ StreamCompleted) => CallsOf("getState") # {}

\* C12 as amended: after a joined stream completes, getState is called once,
\* after joinStream and before RUN_FINISHED, and the interrupt signal is
\* emitted right before RUN_FINISHED exactly when the search of the returned
\* state finds an interrupt (a rejected getState or a search that throws emits
\* none); on the idle path getState is not called and RUN_FINISHED follows the
\* snapshot events directly.
C12_InterruptRecheck ==
    /\ pc = "getState" =>
          /\ calls[Len(calls)].op = "getState"
          /\ calls[Len(calls) - 1].op = "joinStream"
          /\ Positions("RUN_FINISHED") = {}
    /\ StreamCompleted =>
          /\ Cardinality(CallsOf("getState")) = 1
          /\ out[Len(out)] = RunFinished(currentRunId)
          /\ Recheck.found <=> IsInterruptSignal(out[Len(out) - 1], Recheck.value)
          /\ Recheck.found => out[Len(out) - 1].runId = currentRunId
    /\ IdleChosen =>
          /\ CallsOf("getState") = {}
          /\ out = Append(SnapshotEvents(runId, transformedMessages, FetchedList[1]).events,
                          RunFinished(runId))

C12_Witness ==
    /\ StreamCompleted
    /\ Recheck.found
    /\ ~FindInterrupt(FetchedList[1].tasks).found
    /\ IsInterruptSignal(out[Len(out) - 1], Recheck.value)
    /\ out[Len(out)].type = "RUN_FINISHED"

\* --------------------------------------------------- the snapshot events
\* The events connect emitted before it joined a stream or finished.
SnapshotPart ==
    IF Joined THEN SubSeq(out, 1, joinAt)
    ELSE IF pc = "done" THEN SubSeq(out, 1, Len(out) - 1)
    ELSE out
\* The newest checkpoint, and the tasks of it that hold an interrupt.
Newest == FetchedList[1]
PendingTasks == {k \in 1..Len(Newest.tasks) :
                    Newest.tasks[k].ok /\ Newest.tasks[k].interrupts # <<>>}
FirstPending == CHOOSE k \in PendingTasks : \A j \in PendingTasks : k <= j

\* C13: for a non-empty history the snapshot events are exactly RUN_STARTED,
\* MESSAGES_SNAPSHOT, then STATE_SNAPSHOT with the values of the newest
\* checkpoint (the first of the fetched list) iff it has values, then the
\* on_interrupt signal iff the newest checkpoint has a pending interrupt.
C13_SnapshotOrder ==
    (FetchedList # <<>> /\ pc \in {"activeRuns", "stream", "getState", "done"}) =>
        LET part == SnapshotPart
            hasValues == Newest.values # None
            pending == PendingTasks # {}
            n == 2 + (IF hasValues THEN 1 ELSE 0) + (IF pending THEN 1 ELSE 0)
        IN /\ Len(part) = n
           /\ part[1].type = "RUN_STARTED"
           /\ part[2].type = "MESSAGES_SNAPSHOT"
           /\ hasValues => /\ part[3].type = "STATE_SNAPSHOT"
                           /\ part[3].snapshot = Newest.values
           /\ pending => IsInterruptSignal(part[n],
                                           Newest.tasks[FirstPending].interrupts[1])

\* ------------------------------------------------------- the join decision
ThreadBusy == FetchedList # <<>> /\ Newest.next # <<>>
\* The runs of the run list answered last that are running or pending.
LookupAnswered == reply.op = "listRuns" /\ reply.ok /\ reply.value # None
ActiveInReply ==
    {k \in 1..Len(reply.value[1]) : reply.value[1][k].status \in {"running", "pending"}}
FirstActiveInReply == CHOOSE k \in ActiveInReply : \A j \in ActiveInReply : k <= j

\* C14: a stream is joined iff the newest checkpoint's next list is non-empty
\* and the run lookup made then succeeds and returns a running or pending
\* run; the run joined is the first such run of the list; otherwise no stream
\* is joined and the connection finishes as idle.
C14_JoinDecision ==
    /\ Joined =>
          /\ ThreadBusy
          /\ Cardinality(CallsOf("joinStream")) = 1
          /\ \A k \in CallsOf("joinStream") : calls[k].run = joinedRunId
    /\ (pc = "stream" /\ cur = None) =>
          /\ LookupAnswered
          /\ ActiveInReply # {}
          /\ joinedRunId = reply.value[1][FirstActiveInReply].run_id
          /\ calls[Len(calls)].op = "joinStream"
    /\ IdleChosen =>
          /\ CallsOf("joinStream") = {}
          /\ out[Len(out)] = RunFinished(runId)
          /\ ThreadBusy => (~LookupAnswered \/ ActiveInReply = {})
          /\ ThreadBusy <=> Cardinality(CallsOf("listRuns")) = 2

C14_Witness ==
    /\ pc = "stream"
    /\ cur = None
    /\ LookupAnswered
    /\ reply.value[1][1].status = "success"
    /\ FirstActiveInReply = 2
    /\ joinedRunId = "r2"

\* --------------------------------------------------- failure of the stream
\* C15: when opening or iterating the joined stream fails, every event
\* emitted so far stays, exactly one event is added, a RUN_FINISHED (no
\* fallback RUN_STARTED or empty snapshot), and completion is signalled once.
C15_JoinFailure ==
    [][(pc = "stream" /\ pc' = "done") =>
          /\ Len(out') = Len(out) + 1
          /\ SubSeq(out', 1, Len(out)) = out
          /\ out'[Len(out')].type = "RUN_FINISHED"
          /\ {i \in 1..Len(out') : out'[i].type = "MESSAGES_SNAPSHOT"} = {2}
          /\ completions = 0
          /\ completions' = 1]_vars

C15_Witness ==
    /\ pc = "done"
    /\ Joined
    /\ reply.op = "listRuns"
    /\ cur # None
    /\ emitted # <<>>
    /\ Positions("MESSAGES_SNAPSHOT") = {2}
    /\ Positions("RUN_FINISHED") = {Len(out)}
    /\ out[Len(out) - 1] = emitted[Len(emitted)]
    /\ completions = 1

\* ------------------------------------------------------ two connections
\* The runner's other connection is being served too: subscribed to and not
\* yet completed.
PeerLive == parked.pc \notin {"idle", "done"}

\* The connection has joined a stream and has processed no chunk of it yet.
JustJoined == pc = "stream" /\ chunks = 0

\* C16: connections served by the same runner are independent: no normalizer
\* state written while serving one connection is read by the other.  A
\* connection that has just joined its stream, while the other connection is
\* still being served, holds no override state: none of its own chunks has
\* written one yet.
C16_ConnectionsIndependent ==
    (JustJoined /\ PeerLive) => manuallyEmittedState = None

\* In the event log `log` of one observer every TEXT_MESSAGE_CONTENT and
\* TEXT_MESSAGE_END that the chat-model events produced has, earlier in the
\* same log, a TEXT_MESSAGE_START of its message id; likewise the tool calls.
StartedInOwnLog(log) ==
    \A i \in 1..Len(log) :
       /\ (log[i].type \in {"TEXT_MESSAGE_CONTENT", "TEXT_MESSAGE_END"}
           /\ log[i].raw \in ModelEvents) =>
             \E j \in 1..(i - 1) :
                log[j].type = "TEXT_MESSAGE_START" /\ log[j].id = log[i].id
       /\ (log[i].type \in {"TOOL_CALL_ARGS", "TOOL_CALL_END"}
           /\ log[i].raw \in {"on_tool_start", "on_tool_end"}) =>
             \E j \in 1..(i - 1) :
                log[j].type = "TOOL_CALL_START" /\ log[j].id = log[i].id

\* Both observers have joined the same run.
BothJoined ==
    /\ joinedRunId # ""
    /\ parked.joinedRunId = joinedRunId

\* C17: two observers that join the same live run concurrently each keep their
\* own startedMessages and startedToolCalls: whatever START the other observer
\* was sent, each observer's own log has the START of an identity before its
\* first content or end event for that identity, and each observer's sets hold
\* exactly the identities its own log has started.
C17_OwnStartedSets ==
    BothJoined =>
       /\ StartedInOwnLog(out)
       /\ StartedInOwnLog(parked.out)
       /\ \A m \in startedMessages :
             \E j \in 1..Len(out) : out[j].type = "TEXT_MESSAGE_START" /\ out[j].id = m
       /\ \A m \in parked.startedMessages :
             \E j \in 1..Len(parked.out) :
                parked.out[j].type = "TEXT_MESSAGE_START" /\ parked.out[j].id = m
       /\ \A t \in startedToolCalls :
             \E j \in 1..Len(out) : out[j].type = "TOOL_CALL_START" /\ out[j].id = t
       /\ \A t \in parked.startedToolCalls :
             \E j \in 1..Len(parked.out) :
                parked.out[j].type = "TOOL_CALL_START" /\ parked.out[j].id = t

\* Both observers are in the stream; the other one has been sent the START
\* of message m1 and of tool call m1, and this one, meeting m1 in a content
\* event afterwards, is sent its own START with it.
C17_Witness ==
    /\ BothJoined
    /\ pc = "stream"
    /\ parked.pc = "stream"
    /\ "m1" \in parked.startedMessages
    /\ "m1" \in parked.startedToolCalls
    /\ \E j \in 1..Len(parked.out) :
          parked.out[j].type = "TEXT_MESSAGE_START" /\ parked.out[j].id = "m1"
    /\ \E j \in 1..Len(parked.out) :
          parked.out[j].type = "TOOL_CALL_START" /\ parked.out[j].id = "m1"
    /\ chunks = 1
    /\ cur # None
    /\ cur[1].ev = "on_chat_model_stream"
    /\ Len(emitted) >= 2
    /\ emitted[1].type = "TEXT_MESSAGE_START"
    /\ emitted[1].id = "m1"
    /\ emitted[2].type = "TEXT_MESSAGE_CONTENT"

\* The connection with locals `c` has a client of its own, built from the
\* frozen configuration, and has made every one of its calls on it.
OwnClient(c) ==
    c.pc # "idle" =>
       /\ c.client # None
       /\ c.client[1].apiUrl = frozenConfig.deploymentUrl
       /\ c.client[1].apiKey = frozenConfig.langsmithApiKey
       /\ c.client[1].timeoutMs = frozenConfig.clientTimeoutMs
       /\ c.calls # <<>>
       /\ \A k \in 1..Len(c.calls) : c.calls[k].client = c.client

ClientIsolation ==
    /\ OwnClient(Locals)
    /\ OwnClient(parked)
    /\ (client # None /\ parked.client # None) => client[1].id # parked.client[1].id
    /\ clients = Cardinality({c \in {Locals, parked} : c.pc # "idle"})

\* C18: every connect() constructs a new client from the runner's frozen
\* configuration; the getHistory, runs.list, joinStream and getState calls of
\* a connection are all made on its client; no client is used by two
\* connect() calls; and the frozen configuration never changes.
C18_ClientIsolation ==
    /\ []ClientIsolation
    /\ [][frozenConfig' = frozenConfig]_vars

\* Both connections have made calls, one of them all four kinds, on a runner
\* configured with a key and a timeout.
C18_Witness ==
    /\ frozenConfig.langsmithApiKey = Some("key")
    /\ client # None /\ client[1].timeoutMs = 5000
    /\ {calls[k].op : k \in 1..Len(calls)} = {"getHistory", "listRuns", "joinStream", "getState"}
    /\ parked.calls # <<>>
    /\ parked.client # None

\* ------------------------------------------------- a chunk that throws
\* Processing the chunk throws, in the context the session is in.
Throws(chunk) == processStreamChunk(chunk, Context).threw

\* This step is an iteration of the loop, over the chunk cur'.
Iteration == pc = "stream" /\ chunks' = chunks + 1 /\ cur' # None

\* C19: when processing a stream chunk throws, the chunk is skipped (nothing
\* is emitted for it and the error is logged), the session's run id, override
\* state and started sets keep their values from before the chunk, and the
\* loop goes on; a chunk that arrives after a skipped one is processed like
\* any other, from the session as it was, its events following those already
\* emitted; and a connection that joined a stream ends with RUN_FINISHED,
\* however many chunks were skipped.
C19_ChunkIsolation ==
    /\ [][(Iteration /\ Throws(cur'[1])) =>
             /\ out' = out
             /\ currentRunId' = currentRunId
             /\ manuallyEmittedState' = manuallyEmittedState
             /\ startedMessages' = startedMessages
             /\ startedToolCalls' = startedToolCalls
             /\ chunkErrors' = chunkErrors + 1
             /\ pc' = "stream"
             /\ completions' = completions]_vars
    /\ [][(Iteration /\ chunkErrors > 0 /\ ~Throws(cur'[1])) =>
             LET r == processStreamChunk(cur'[1], Context)
             IN /\ out' = out \o r.events
                /\ currentRunId' = r.runId
                /\ manuallyEmittedState' = r.manuallyEmittedState
                /\ pc' = "stream"]_vars
    /\ []((pc = "done" /\ Joined) =>
             /\ out[Len(out)].type = "RUN_FINISHED"
             /\ Cardinality(Positions("RUN_FINISHED")) = 1
             /\ completions = 1)

\* The first chunk of the stream threw, the second was processed and its
\* events emitted, and the connection has finished.
C19_Witness ==
    /\ pc = "done"
    /\ Joined
    /\ chunks = 2
    /\ chunkErrors = 1
    /\ ~Throws(cur[1])
    /\ emitted # <<>>
    /\ SubSeq(out, joinAt + 1, Len(out) - 1) = emitted
    /\ out[Len(out)].type = "RUN_FINISHED"

\* ------------------------------------------- a message that cannot be projected
\* The record can be projected: its type is one of the four known ones and
\* projecting it does not throw.
CanProject(msg) == Projectable(msg) /\ ~ProjectionThrows(msg)

\* The interrupt search over the newest checkpoint's tasks does not throw.
TasksSound == ~FindInterrupt(Newest.tasks).threw

\* C20: during history reconstruction a message record that cannot be
\* projected (unknown type, or a record whose projection throws) is dropped
\* alone: when getHistory returned checkpoints (and nothing after the
\* reconstruction fails), the MESSAGES_SNAPSHOT holds every other message the
\* trim kept, in their relative order, and the connection has not fallen back
\* to the empty snapshot of the error path.
C20_MessageIsolation ==
    (pc = "done" /\ FetchedList # <<>> /\ TasksSound) =>
       /\ Hydrated
       /\ out[1].runId # ErrorRunId
       /\ Cardinality(Positions("MESSAGES_SNAPSHOT")) = 1
       /\ Ids(Snapshot) = Ids(SelectSeq(Kept, CanProject))

\* ------------------------------------------------------------- termination
Subscribed == pc # "idle"
Completed == pc = "done" /\ completions = 1

\* C21: when every network call returns or fails in the end and a joined
\* stream ends or fails in the end, every subscribed connection signals
\* completion to the subscriber in the end, signals it once, and never
\* signals an error.
C21_Termination ==
    /\ Subscribed ~> Completed
    /\ [](errors = 0 /\ completions <= 1)

\* The connection completed after the stream it joined had failed.
C21_Witness ==
    /\ Completed
    /\ Joined
    /\ chunks > 0
    /\ reply.op # "getState"
    /\ out[Len(out)].type = "RUN_FINISHED"

\* ------------------------------------------------ lookups that fail
\* The reply that arrives in this step is a failure of `op`.
FailsNow(at, op) == pc = at /\ reply' = Reply(op, FALSE, None)

\* What the consumer has been handed: one MESSAGES_SNAPSHOT, the second
\* event, holding the reconstructed messages; and, once the connection is
\* over, one RUN_FINISHED, the last event.
HydratedDelivered ==
    /\ Positions("MESSAGES_SNAPSHOT") = {2}
    /\ out[2].messages = transformedMessages
    /\ pc = "done" =>
          /\ out[Len(out)].type = "RUN_FINISHED"
          /\ Cardinality(Positions("RUN_FINISHED")) = 1

\* C22: a failure of the run-id lookup yields a generated run id, a failure
\* of the active-run lookup yields Idle (no join, RUN_FINISHED), a failure of
\* the getState after the stream skips the interrupt check (RUN_FINISHED
\* alone is added); and in each case the consumer is handed the hydrated
\* MESSAGES_SNAPSHOT and no other, and RUN_FINISHED.
C22_LookupFailuresAbsorbed ==
    [][/\ FailsNow("listRuns", "listRuns") =>
             /\ runId' = GeneratedRunId
             /\ out'[1] = RunStarted(GeneratedRunId)
             /\ HydratedDelivered'
       /\ FailsNow("activeRuns", "listRuns") =>
             /\ pc' = "done"
             /\ joinedRunId' = ""
             /\ out' = Append(out, RunFinished(runId))
             /\ HydratedDelivered'
       /\ FailsNow("getState", "getState") =>
             /\ pc' = "done"
             /\ out' = Append(out, RunFinished(currentRunId))
             /\ HydratedDelivered']_vars

\* ------------------------------------------------------ the fetch limit
\* The limits the getHistory calls of the connection were made with.
FetchedWith == {calls[k].limit : k \in CallsOf("getHistory")}

\* C23: whatever integer historyLimit the runner was configured with, the
\* limit of the getHistory call is in 1..1000: 100 when none was configured,
\* the configured value when that is in 1..1000, 1000 when it is above 1000
\* (and 100 when it is zero or negative).
C23_FetchLimit ==
    pc # "idle" =>
       /\ FetchedWith # {}
       /\ \A l \in FetchedWith :
             /\ l \in 1..MAX_HISTORY_LIMIT
             /\ configLimit = None => l = DEFAULT_HISTORY_LIMIT
             /\ (configLimit # None /\ configLimit[1] \in 1..MAX_HISTORY_LIMIT)
                   => l = configLimit[1]
             /\ (configLimit # None /\ configLimit[1] > MAX_HISTORY_LIMIT)
                   => l = MAX_HISTORY_LIMIT
             /\ (configLimit # None /\ configLimit[1] <= 0)
                   => l = DEFAULT_HISTORY_LIMIT

\* A runner configured with a negative limit has fetched with the default.
C23_Witness ==
    /\ configLimit # None
    /\ configLimit[1] < 0
    /\ historyLimit < 0
    /\ FetchedWith = {DEFAULT_HISTORY_LIMIT}
    /\ pc = "done"

\* ------------------------------------------------------------ cancellation
\* `a` is an initial part of `b`.
IsPrefix(a, b) == Len(a) <= Len(b) /\ SubSeq(b, 1, Len(a)) = a

\* C24: once the consumer has unsubscribed, the connection makes no further
\* network call and reads no further chunk of the stream; no error is
\* signalled; and the events handed over before stay as they were.
C24_Cancellation ==
    /\ [][closed => (calls' = calls /\ chunks' = chunks)]_vars
    /\ [][IsPrefix(out, out')]_vars
    /\ [](errors = 0)

\* ------------------------------------------------ versions of a message
\* The versions of message id m in checkpoint k of the fetched list, in
\* list order.
VersionsIn(k, m) ==
    SelectSeq(CheckpointMessages(FetchedList[k]), LAMBDA msg : msg.id = m)

\* The oldest checkpoint that contains m: the fetched list is newest first.
OldestWith(m) ==
    LET with == CheckpointsWith(m)
    IN CHOOSE k \in with : \A j \in with : j <= k

\* C25: a message of the MESSAGES_SNAPSHOT whose id occurs in several
\* checkpoints is the projection of the version in the oldest checkpoint that
\* contains the id; the versions in newer checkpoints never replace it.
C25_FirstOccurrenceWins ==
    Hydrated =>
       \A k \in 1..Len(Snapshot) :
          LET m == Snapshot[k].id
              first == VersionsIn(OldestWith(m), m)[1]
          IN /\ CheckpointsWith(m) # {}
             /\ Snapshot[k].content = extractContent(first.content)
             /\ Snapshot[k].role = RoleOf(first.type)

\* The newest checkpoint holds message 1 in revision "b", an older one holds
\* it in revision "a", and the snapshot has revision "a".
C25_Witness ==
    /\ Hydrated
    /\ Len(FetchedList) = 2
    /\ VersionsIn(1, 1) = <<Msg(1, "b")>>
    /\ VersionsIn(2, 1) = <<Msg(1, "a")>>
    /\ Len(Snapshot) = 1
    /\ Snapshot[1].id = 1
    /\ Snapshot[1].content = <<"a">>

\* ------------------------------------------------- the interrupt chosen
\* The interrupt signals among out[lo..hi].
SignalsIn(lo, hi) ==
    {i \in lo..hi : out[i].type = "CUSTOM" /\ out[i].name = "on_interrupt"}

\* The tasks of a task list that hold an interrupt, the first of them, and
\* whether every entry up to it is a task.
PendingIn(tasks) == {k \in 1..Len(tasks) : tasks[k].ok /\ tasks[k].interrupts # <<>>}
FirstPendingIn(tasks) ==
    CHOOSE k \in PendingIn(tasks) : \A j \in PendingIn(tasks) : k <= j
SoundUpTo(tasks, k) == \A j \in 1..k : tasks[j].ok

\* The signals `signals` are what the task list `tasks` calls for: at most
\* one; it carries the first interrupt of the first task that has any; there
\* is none when no task has an interrupt, and there is one when a task has
\* and the entries before it are tasks.
SelectedFrom(signals, tasks) ==
    /\ Cardinality(signals) <= 1
    /\ \A i \in signals :
          /\ PendingIn(tasks) # {}
          /\ out[i].value = tasks[FirstPendingIn(tasks)].interrupts[1]
    /\ (PendingIn(tasks) # {} /\ SoundUpTo(tasks, FirstPendingIn(tasks)))
          => signals # {}

\* The snapshot has been handed over (the interrupt search of connect ran).
SnapshotDone ==
    /\ FetchedList # <<>>
    /\ ~ReconstructionThrows(FetchedList)
    /\ pc \in {"activeRuns", "stream", "getState", "done"}

\* getState answered with a thread state after the stream.
StateAfterStream == pc = "done" /\ Joined /\ reply.op = "getState"

\* C26: the interrupt signal emitted from a checkpoint carries the value of
\* the first interrupt of the first task, in task order, whose interrupts
\* list is non-empty; none is emitted when no task has one; further
\* interrupts of that task and of later tasks are never emitted.  This holds
\* of the newest checkpoint when the snapshot is emitted and of the thread
\* state read after the stream.
C26_InterruptSelection ==
    /\ SnapshotDone =>
          SelectedFrom(SignalsIn(1, IF Joined THEN joinAt ELSE Len(out)), Newest.tasks)
    /\ StateAfterStream =>
          IF reply.ok /\ reply.value # None
          THEN SelectedFrom(SignalsIn(joinAt + 1, Len(out)), reply.value[1].tasks)
          ELSE SignalsIn(joinAt + 1, Len(out)) = {}
    /\ (Joined /\ ~StateAfterStream) => SignalsIn(joinAt + 1, Len(out)) = {}

\* The newest checkpoint has three tasks, the second with two interrupts and
\* the third with one; so has the state read after the stream; each time the
\* one signal carries the first interrupt of the second task.
C26_Witness ==
    /\ StateAfterStream
    /\ reply.ok /\ reply.value # None
    /\ Len(reply.value[1].tasks) = 3
    /\ Len(Newest.tasks) = 3
    /\ \E i \in SignalsIn(1, joinAt) : out[i].value = "i1"
    /\ \E i \in SignalsIn(joinAt + 1, Len(out)) : out[i].value = "i1"
    /\ Cardinality(SignalsIn(1, Len(out))) = 2

\* ------------------------------------------------- the end of a message
\* The chunk is a well-formed `events` chunk whose nested event is `ev`.
Nested(chunk, ev) == chunk.event = "events" /\ ~chunk.data_null /\ chunk.ev = ev

\* The id the nested event of the chunk is about, in the session as it is.
IdOf(chunk) == IF chunk.run_id # "" THEN chunk.run_id ELSE currentRunId

\* The events of the given types among `events`, as << type, id >> pairs.
Shape(events, types) ==
    LET sel == SelectSeq(events, LAMBDA e : e.type \in types)
    IN [k \in 1..Len(sel) |-> << sel[k].type, sel[k].id >>]

\* What the step does for an OnChatModelEnd chunk about m that is not
\* switched off: START(m) then END(m) and m added when m was not started,
\* END(m) alone when it was.
EndHandled(chunk) ==
    LET m == IdOf(chunk)
    IN IF m \notin startedMessages
       THEN /\ Shape(emitted', TextMessageTypes) =
                  << <<"TEXT_MESSAGE_START", m>>, <<"TEXT_MESSAGE_END", m>> >>
            /\ startedMessages' = startedMessages \cup {m}
       ELSE /\ Shape(emitted', TextMessageTypes) = << <<"TEXT_MESSAGE_END", m>> >>
            /\ startedMessages' = startedMessages

\* C27 as stated: whenever an OnChatModelEnd for m is processed, START(m)
\* then END(m) are emitted and m is added when m is not in startedMessages,
\* and END(m) alone when it is.
C27_Original ==
    [][(Iteration /\ Nested(cur'[1], "on_chat_model_end")) => EndHandled(cur'[1])]_vars

\* C27 as amended: the same, unless the chunk's metadata sets
\* copilotkit:emit-messages to false; then nothing is emitted and the set is
\* as it was.
C27_MidStreamEnd ==
    [][(Iteration /\ Nested(cur'[1], "on_chat_model_end")) =>
          IF cur'[1].emitMessages = "false"
          THEN emitted' = <<>> /\ startedMessages' = startedMessages
          ELSE EndHandled(cur'[1])]_vars

\* The first chunk of the stream was an OnChatModelEnd for m1: the session
\* was sent START(m1) and END(m1) and holds m1.
C27_Witness ==
    /\ pc = "stream"
    /\ chunks = 1
    /\ Nested(cur[1], "on_chat_model_end")
    /\ cur[1].run_id = "m1"
    /\ Shape(emitted, TextMessageTypes) =
          << <<"TEXT_MESSAGE_START", "m1">>, <<"TEXT_MESSAGE_END", "m1">> >>
    /\ startedMessages = {"m1"}

\* ------------------------------------------------- the start of a tool call
\* The tool-call events of `events` as << type, id, name >> triples.
ToolShape(events) ==
    LET sel == SelectSeq(events, LAMBDA e : e.type \in ToolCallTypes)
    IN [k \in 1..Len(sel) |-> << sel[k].type, sel[k].id, sel[k].name >>]

\* What the step does for an OnToolStart chunk about t: START(t, name) when
\* t was not started, then ARGS(t) when `args` holds, and t is in the set.
ToolStartHandled(chunk, args) ==
    LET t == IdOf(chunk)
    IN /\ ToolShape(emitted') =
             (IF t \notin startedToolCalls
              THEN << <<"TOOL_CALL_START", t, chunk.name>> >> ELSE <<>>)
             \o (IF args THEN << <<"TOOL_CALL_ARGS", t, "">> >> ELSE <<>>)
       /\ startedToolCalls' = startedToolCalls \cup {t}

\* In the session no tool-call id has two TOOL_CALL_START from the
\* OnToolStart / OnToolEnd handling.
OneToolStartPerId ==
    \A i, j \in (joinAt + 1)..Len(out) :
       (/\ out[i].type = "TOOL_CALL_START" /\ out[j].type = "TOOL_CALL_START"
        /\ out[i].raw \in {"on_tool_start", "on_tool_end"}
        /\ out[j].raw \in {"on_tool_start", "on_tool_end"}
        /\ out[i].id = out[j].id) => i = j

\* C28 as stated: whenever an OnToolStart for t is processed,
\* TOOL_CALL_START(t, name) is emitted only if t is not in startedToolCalls
\* (and t is added), then TOOL_CALL_ARGS(t) iff the event carries an input;
\* and no id has two TOOL_CALL_START from OnToolStart / OnToolEnd.
C28_Original ==
    /\ [][(Iteration /\ Nested(cur'[1], "on_tool_start")) =>
             ToolStartHandled(cur'[1], cur'[1].input # "absent")]_vars
    /\ [](Joined => OneToolStartPerId)

\* C28 as amended: the same when the chunk's metadata does not set
\* copilotkit:emit-tool-calls to false and with TOOL_CALL_ARGS(t) iff the
\* input is a truthy value; when the metadata sets the flag to false nothing
\* is emitted and the set is as it was.
C28_ToolStartArgs ==
    /\ [][(Iteration /\ Nested(cur'[1], "on_tool_start")) =>
             IF cur'[1].emitToolCalls = "false"
             THEN emitted' = <<>> /\ startedToolCalls' = startedToolCalls
             ELSE ToolStartHandled(cur'[1], cur'[1].input = "value")]_vars
    /\ [](Joined => OneToolStartPerId)

\* An OnToolEnd for m1 came first and started the tool call; the
\* OnToolStart for m1 with an input that came next emitted the ARGS alone.
C28_Witness ==
    /\ pc = "stream"
    /\ chunks = 2
    /\ Nested(cur[1], "on_tool_start")
    /\ cur[1].run_id = "m1"
    /\ cur[1].input = "value"
    /\ ToolShape(emitted) = << <<"TOOL_CALL_ARGS", "m1", "">> >>
    /\ \E i \in (joinAt + 1)..Len(out) :
          out[i].type = "TOOL_CALL_START" /\ out[i].id = "m1" /\ out[i].raw = "on_tool_end"

\* ------------------------------------------------------------ identity
UnitEvents ==
    {"on_chat_model_start", "on_chat_model_stream", "on_chat_model_end",
     "on_tool_start", "on_tool_end"}

\* C29: every TEXT_MESSAGE_* and TOOL_CALL_* event that the handling of an
\* OnChatModelStart / Stream / End or OnToolStart / End chunk emits carries
\* the nested event's run id, or the session's run id at that moment when the
\* nested one is absent; so in a session every content, args and end event of
\* such a unit has before it a START carrying the same id.
C29_IdentityPolicy ==
    /\ [][(Iteration /\ \E ev \in UnitEvents : Nested(cur'[1], ev)) =>
             \A k \in 1..Len(emitted') :
                emitted'[k].type \in TextMessageTypes \cup ToolCallTypes =>
                   /\ emitted'[k].id =
                         (IF cur'[1].run_id # "" THEN cur'[1].run_id ELSE currentRunId)
                   /\ emitted'[k].runId = currentRunId]_vars
    /\ [](Joined => StartedInOwnLog(out))

\* A metadata chunk made r2 the session's run id; the OnChatModelEnd without
\* a nested run id that followed emitted START and END with id r2.
C29_Witness ==
    /\ pc = "stream"
    /\ chunks = 2
    /\ Nested(cur[1], "on_chat_model_end")
    /\ cur[1].run_id = ""
    /\ currentRunId = "r2"
    /\ joinedRunId # "r2"
    /\ Shape(emitted, TextMessageTypes) =
          << <<"TEXT_MESSAGE_START", "r2">>, <<"TEXT_MESSAGE_END", "r2">> >>

\* ------------------------------------------------------- metadata chunks
\* The chunk is a well-formed metadata chunk.
IsMetadata(chunk) == chunk.event = "metadata" /\ ~chunk.data_null

\* A metadata chunk emits nothing and changes nothing but the session's run
\* id, which becomes the chunk's when it carries one.
MetadataFrame ==
    (Iteration /\ IsMetadata(cur'[1])) =>
       /\ emitted' = <<>>
       /\ out' = out
       /\ currentRunId' = (IF cur'[1].run_id # "" THEN cur'[1].run_id ELSE currentRunId)
       /\ startedMessages' = startedMessages
       /\ startedToolCalls' = startedToolCalls
       /\ manuallyEmittedState' = manuallyEmittedState

\* The events of a chunk carry the run id the session had when it arrived.
StampedWithSessionId ==
    Iteration => \A k \in 1..Len(emitted') : emitted'[k].runId = currentRunId

\* The RUN_FINISHED that ends a joined connection carries the session's run id.
FinishedWithSessionId ==
    (pc = "done" /\ Joined) =>
       /\ out[Len(out)].type = "RUN_FINISHED"
       /\ out[Len(out)].runId = currentRunId

\* C30: a metadata chunk that carries a run identifier emits no UI event and
\* changes only the session's current run id; the events of later chunks of
\* the stream and the final RUN_FINISHED carry the new id; a metadata chunk
\* without a run identifier changes nothing.
C30_MetadataRunId ==
    /\ [][MetadataFrame]_vars
    /\ [][StampedWithSessionId]_vars
    /\ []FinishedWithSessionId

\* A custom chunk named "manually emit intermediate state".
IsIntermediateState(chunk) ==
    chunk.event = "custom" /\ chunk.name = CopilotKitManuallyEmitIntermediateState

\* The STATE_SNAPSHOT events of such chunks among the events of the joined
\* stream, in order: their raw event is the custom one.
OverrideSnapshots ==
    SelectSeq(SubSeq(out, joinAt + 1, Len(out)),
              LAMBDA e : e.type = "STATE_SNAPSHOT" /\ e.raw = "custom")

\* The stream ends normally: the loop is left and getState is called.
StreamEndsNormally == pc = "stream" /\ pc' = "getState"

\* C31: a custom chunk named "manually emit intermediate state" makes its
\* value the session's override state and emits exactly one STATE_SNAPSHOT
\* carrying that value; every other chunk leaves the override state as it
\* was; the override stored on the runner changes only when a stream ends
\* normally, and is then the value of the last such chunk, or the value the
\* runner held before the join when the stream had none.
C31_OverrideState ==
    [][ /\ Iteration =>
              LET chunk == cur'[1]
              IN IF IsIntermediateState(chunk)
                 THEN /\ manuallyEmittedState' = chunk.state
                      /\ Len(emitted') = 1
                      /\ emitted'[1].type = "STATE_SNAPSHOT"
                      /\ emitted'[1].snapshot = chunk.state
                      /\ out' = out \o emitted'
                 ELSE manuallyEmittedState' = manuallyEmittedState
        /\ activeRun' # activeRun => StreamEndsNormally
        /\ StreamEndsNormally =>
              LET snaps == OverrideSnapshots
              IN activeRun' = IF snaps # <<>> THEN snaps[Len(snaps)].snapshot
                              ELSE activeRun
      ]_vars

\* A stream with two such chunks of different values has ended, and the
\* runner stores the value of the second.
C31_Witness ==
    /\ pc = "getState"
    /\ Len(OverrideSnapshots) = 2
    /\ OverrideSnapshots[1].snapshot = None
    /\ OverrideSnapshots[2].snapshot = StateS1
    /\ activeRun = StateS1

\* ------------------------------------------------------ content flattening
\* The content of the one message fetched, and of its projection.
ContentIn == CheckpointMessages(FetchedList[1])[1].content
ContentOut == Snapshot[1].content

\* The blocks of kind "text" with a non-empty text, in list order.
TextBlocks(blocks) == SelectSeq(blocks, LAMBDA b : b.type = "text" /\ Len(b.text) > 0)

\* Where the text of the i-th such block starts in the joined string.
RECURSIVE StartOf(_, _)
StartOf(texts, i) ==
    IF i = 1 THEN 1 ELSE StartOf(texts, i - 1) + Len(texts[i - 1].text) + 1

\* r is the texts joined by a newline: each text at its place, one newline
\* between two neighbours, nothing else.
IsJoinOf(r, texts) ==
    IF texts = <<>> THEN r = <<>>
    ELSE LET n == Len(texts)
         IN /\ Len(r) = StartOf(texts, n) + Len(texts[n].text) - 1
            /\ \A i \in 1..n :
                  /\ SubSeq(r, StartOf(texts, i), StartOf(texts, i) + Len(texts[i].text) - 1)
                       = texts[i].text
                  /\ i < n => r[StartOf(texts, i) + Len(texts[i].text)] = "\n"

\* C32: extractContent returns a string unchanged; for a list it returns the
\* texts of the blocks of kind "text" with non-empty text, in list order,
\* joined by a newline (["a", other, "b c"] gives "a\nbc", [] gives "");
\* any other shape gives the empty string.
C32_ContentFlattening ==
    Hydrated =>
        /\ Len(Snapshot) = 1
        /\ ContentIn.kind = "string" => ContentOut = ContentIn.text
        /\ ContentIn.kind = "array" => IsJoinOf(ContentOut, TextBlocks(ContentIn.blocks))
        /\ ContentIn.kind = "array" /\ ContentIn.blocks = <<>> => ContentOut = <<>>
        /\ (/\ ContentIn.kind = "array"
            /\ ContentIn.blocks = << Block("text", <<"a">>), Block("image", <<"x">>),
                                     Block("text", <<"b", "c">>) >>)
           => ContentOut = <<"a", "\n", "b", "c">>
        /\ ContentIn.kind \notin {"string", "array"} => ContentOut = <<>>

\* A list of a text block, a block of another kind and a text block was
\* flattened to the two texts with a newline between them.
C32_Witness ==
    /\ Hydrated
    /\ ContentIn.kind = "array"
    /\ ContentIn.blocks = << Block("text", <<"a">>), Block("image", <<"x">>),
                             Block("text", <<"b", "c">>) >>
    /\ ContentOut = <<"a", "\n", "b", "c">>

\* ------------------------------------------------------------------- run()
\* The state the request of an execution came with ({} when it had none).
StateOf(request) == IF request.state = None THEN << >> ELSE request.state[1]

\* The state of execution f is the request's state merged with the map x,
\* x winning on the keys of both.
MergedWith(f, x) ==
    LET e == StateOf(f.request[1])
    IN /\ DOMAIN f.state = (DOMAIN e) \cup (DOMAIN x)
       /\ \A k \in DOMAIN x : f.state[k] = x[k]
       /\ \A k \in (DOMAIN e) \ (DOMAIN x) : f.state[k] = e[k]

RunStateRight ==
    \A i \in 1..Len(freshAgents) :
       LET f == freshAgents[i]
       IN /\ stateExtractor # None => MergedWith(f, stateExtractor[1][f.request[1]])
          /\ stateExtractor = None => f.state = StateOf(f.request[1])
          /\ f.input[1].state = Some(f.state)
          /\ f.input[1].threadId = f.request[1].threadId
          /\ f.id # agent.id
          /\ \A j \in 1..Len(freshAgents) : j # i => freshAgents[j].id # f.id

PrecededBy(i, start) ==
    \E j \in 1..(i - 1) : out[j].type = start /\ out[j].id = out[i].id

\* C34: in the event sequence of a connection, every TEXT_MESSAGE_CONTENT
\* and TEXT_MESSAGE_END for a message id has a TEXT_MESSAGE_START for that
\* id before it, and every TOOL_CALL_ARGS and TOOL_CALL_END for a tool-call
\* id has a TOOL_CALL_START for that id before it, whatever chunks arrive
\* and wherever in the run the stream is joined.
C34_WellFormedPrefixes ==
    \A i \in 1..Len(out) :
       /\ out[i].type \in {"TEXT_MESSAGE_CONTENT", "TEXT_MESSAGE_END"}
             => PrecededBy(i, "TEXT_MESSAGE_START")
       /\ out[i].type \in {"TOOL_CALL_ARGS", "TOOL_CALL_END"}
             => PrecededBy(i, "TOOL_CALL_START")

\* The stream was joined after the start of a message and of a tool call:
\* its first chunk is the end of the message, its second the end of the
\* tool call, and each END has the START made for it right before it.
C34_Witness ==
    /\ pc = "stream"
    /\ chunks = 2
    /\ Len(out) = joinAt + 6
    /\ out[joinAt + 1].type = "TEXT_MESSAGE_START"
    /\ out[joinAt + 1].raw = "on_chat_model_end"
    /\ out[joinAt + 2].type = "TEXT_MESSAGE_END"
    /\ out[joinAt + 2].id = out[joinAt + 1].id
    /\ out[joinAt + 4].type = "TOOL_CALL_START"
    /\ out[joinAt + 4].raw = "on_tool_end"
    /\ out[joinAt + 5].type = "TOOL_CALL_END"
    /\ out[joinAt + 5].id = out[joinAt + 4].id

\* ------------------------------------------------------------ closed units
\* C35: once TEXT_MESSAGE_END for a message id has been emitted in a join
\* session, no TEXT_MESSAGE_START, TEXT_MESSAGE_CONTENT or TEXT_MESSAGE_END
\* for that id is emitted later in the session, whatever chunks arrive
\* (nested run ids absent, manual message chunks reusing an id).
C35_ClosedUnitsStayClosed ==
    \A i \in (joinAt + 1)..Len(out) :
       out[i].type = "TEXT_MESSAGE_END" =>
          \A j \in (i + 1)..Len(out) :
             out[j].type \in TextMessageTypes => out[j].id # out[i].id

\* -------------------------------------------------------- run-id consistency
\* C36: within one connection, RUN_FINISHED carries the runId of the
\* connection's RUN_STARTED, also when a live run is joined.
C36_RunIdConsistency ==
    \A i \in 1..Len(out) : \A j \in 1..Len(out) :
       (out[i].type = "RUN_STARTED" /\ out[j].type = "RUN_FINISHED")
          => out[j].runId = out[i].runId

\* ------------------------------------------------------ a single RUN_STARTED
\* C37: a connection emits exactly one RUN_STARTED: never a second one, and
\* one by the time it is over; the fallback sequence does not follow a
\* RUN_STARTED and hydrated MESSAGES_SNAPSHOT already emitted, whatever
\* step fails.
C37_SingleRunStarted ==
    /\ Cardinality(Positions("RUN_STARTED")) <= 1
    /\ pc = "done" => Cardinality(Positions("RUN_STARTED")) = 1

\* --------------------------------------------------- one interrupt signal
\* C38: a connection emits at most one on_interrupt signal: when the newest
\* checkpoint gave one with the snapshot and a live stream is then joined,
\* the check of the state after the stream does not emit the same pending
\* interrupt again.
C38_SingleInterruptSignal == Cardinality(SignalsIn(1, Len(out))) <= 1

\* ------------------------------------------------ union over the checkpoints
\* The message ids that occur in a fetched checkpoint.
FetchedIds == {m \in MsgIds : CheckpointsWith(m) # {}}

\* C39: when the number of distinct message ids of the fetched checkpoints
\* is within the limit, every id that occurs in any fetched checkpoint, also
\* one that the newest checkpoint no longer has, is in the
\* MESSAGES_SNAPSHOT, provided its message is projectable.
C39_UnionOfCheckpoints ==
    (Hydrated /\ Cardinality(FetchedIds) <= historyLimit) =>
        \A m \in FetchedIds :
           Projectable(VersionsIn(OldestWith(m), m)[1])
              => \E k \in 1..Len(Snapshot) : Snapshot[k].id = m

\* Message 2 is in the older of two checkpoints and not in the newest, which
\* has message 1; the snapshot has both.
C39_Witness ==
    /\ Hydrated
    /\ Len(FetchedList) = 2
    /\ CheckpointsWith(2) = {2}
    /\ CheckpointsWith(1) = {1}
    /\ Cardinality(FetchedIds) <= historyLimit
    /\ Ids(Snapshot) = <<2, 1>>

\* ------------------------------------------------------ isRunning and stop
\* An execution started through run() is in progress.
RunInProgress == \E i \in 1..Len(freshAgents) : freshAgents[i].isRunning

\* This step is a call of `op` that returns.
Answers(op) == answer' # answer /\ answer' # None /\ answer'[1].op = op

\* C40: isRunning() and stop() act on the run that run() started: while an
\* execution started through run() is in progress isRunning() returns true,
\* and stop() aborts that execution.
C40_RunControl ==
    /\ [][(Answers("isRunning") /\ RunInProgress) => answer'[1].value = TRUE]_vars
    /\ [][(Answers("stop") /\ RunInProgress) =>
             \A i \in 1..Len(freshAgents') :
                freshAgents[i].isRunning =>
                   (freshAgents'[i].aborted \/ ~freshAgents'[i].isRunning)]_vars

====
